---------------------------- MODULE Spec2Model ----------------------------
(***************************************************************************)
(* A model of everscale-types: the cell builder (cell/builder.rs), the     *)
(* augmented dictionary (dict/aug.rs), the nearest-key search              *)
(* (dict/ops/find.rs), the shard state codec (models/shard/mod.rs), the    *)
(* usage tree (cell/usage_tree.rs) and the message layout                  *)
(* (models/message/mod.rs).                                                *)
(*                                                                         *)
(* Integers wider than TLC's are bit vectors: a value of width w is a      *)
(* sequence of w bits, most significant first.                             *)
(***************************************************************************)
EXTENDS Integers, Sequences, FiniteSets, TLC

VARIABLES
    overflow_checks,  \* build profile: TRUE = debug (overflow panics), FALSE = release (wraps)
    builder,          \* the CellBuilder: [data, level_mask, bit_len, references]
    fault,            \* "none" | "panic" | "ub": how the builder's thread ended, if it did
    call,             \* the last builder call: operation, arguments, state before, return
    built,            \* the PartialCell the last build_ext handed to the finalizer
    nops,             \* number of data appends made so far
    dict_root,        \* AugDict.dict.root: the root cell of the trie, if any
    dict_extra,       \* AugDict.extra: the cached root extra
    trusted,          \* the dictionary was made by AugDict::new and its own operations
    broken,           \* if the dictionary was damaged after it was filled: [root, at, kind], root as it was
    dcall,            \* the last dictionary call: operation, arguments, state before, result
    features,         \* the cargo features of the build: a subset of {"venom", "tycho"}
    shard_state,      \* the ShardStateUnsplit that was stored, if any
    stored,           \* what storing it gave: the cell built from it, or the error
    loaded,           \* what loading that cell gave: the state read back, or the error
    cells,            \* the cells allocated so far: cell number a is cells[a], its refs are numbers
    orig,             \* an AugDict over those cells: [root, extra], root a cell number if any
    cloned,           \* its clone, if one was taken: [root, extra] and what it showed then
    ccall,            \* the last call on the original: operation and result
    cops,             \* number of calls made on the original
    usage_sync,       \* cargo feature "sync": the Arc / Once usage cells instead of the Rc ones
    usage_tree,       \* the UsageTree: [mode, alive, visited]; alive until the tree is dropped
    usage_cells,      \* the UsageCells made so far: [cell, children, reference_states, asked]
    running,          \* per thread: the load_reference it is in the middle of, if any
    ucall,            \* the last call that returned: thread, operation, arguments, result
    uops,             \* number of calls made on the usage tree and its cells
    data_read,        \* hashes of the cells whose data() was called while the tree was alive
    rc_usage,         \* a usage tree and its cells in the build without "sync": [tree, cells]
    sync_usage,       \* the same calls made in the build with "sync": [tree, cells]
    twin_call,        \* the last call made on both: operation, the two results, calls so far
    message,          \* a BaseMessage by its sizes: [info_size, init, body_size, layout]
    mcall             \* the last call on its layout: operation, arguments, result

builderVars == <<overflow_checks, builder, fault, call, built, nops>>
dictVars == <<dict_root, dict_extra, trusted, broken, dcall>>
shardVars == <<features, shard_state, stored, loaded>>
cloneVars == <<cells, orig, cloned, ccall, cops>>
usageVars == <<usage_sync, usage_tree, usage_cells, running, ucall, uops, data_read>>
twinVars == <<rc_usage, sync_usage, twin_call>>
messageVars == <<message, mcall>>
vars == <<builderVars, dictVars, shardVars, cloneVars, usageVars, twinVars, messageVars>>

\* what the calls on one subsystem leave alone
otherThanBuilder == <<dictVars, shardVars, cloneVars, usageVars, twinVars, messageVars>>
otherThanDict == <<builderVars, shardVars, cloneVars, usageVars, twinVars, messageVars>>
otherThanShard == <<builderVars, dictVars, cloneVars, usageVars, twinVars, messageVars>>
otherThanClone == <<builderVars, dictVars, shardVars, usageVars, twinVars, messageVars>>
otherThanUsage == <<builderVars, dictVars, shardVars, cloneVars, twinVars, messageVars>>
otherThanTwin == <<builderVars, dictVars, shardVars, cloneVars, usageVars, messageVars>>
otherThanMessage == <<builderVars, dictVars, shardVars, cloneVars, usageVars, twinVars>>

-----------------------------------------------------------------------------
(* Bit vectors *)

RECURSIVE Pow2(_)
Pow2(n) == IF n = 0 THEN 1 ELSE 2 * Pow2(n - 1)

\* sequences are built eagerly: a tuple, never a function still to be applied
Strict(s) == s \o <<>>

\* F of the value of v, with v evaluated once
Bind(v, F(_)) == CHOOSE r \in {F(x) : x \in {v}} : TRUE

Zeros(n) == Strict([i \in 1..n |-> 0])
Ones(n) == Strict([i \in 1..n |-> 1])

\* the 8 bits of a byte, most significant first, and back
ByteBits(n) ==
    << (n \div 128) % 2, (n \div 64) % 2, (n \div 32) % 2, (n \div 16) % 2,
       (n \div 8) % 2, (n \div 4) % 2, (n \div 2) % 2, n % 2 >>
BitsByte(b, k) ==
    128 * b[k] + 64 * b[k + 1] + 32 * b[k + 2] + 16 * b[k + 3]
      + 8 * b[k + 4] + 4 * b[k + 5] + 2 * b[k + 6] + b[k + 7]

\* the low w bits of n, most significant first (n < 2^31)
ToBits(n, w) == Strict([i \in 1..w |-> IF w - i >= 31 THEN 0 ELSE (n \div Pow2(w - i)) % 2])

RECURSIVE BitsToInt(_)
BitsToInt(b) ==
    IF Len(b) = 0 THEN 0 ELSE 2 * BitsToInt(SubSeq(b, 1, Len(b) - 1)) + b[Len(b)]

\* v << s and v >> s on a fixed width
Shl(v, s) == SubSeq(v, s + 1, Len(v)) \o Zeros(s)
Shr(v, s) == Zeros(s) \o SubSeq(v, 1, Len(v) - s)
BitOrV(a, b) == Strict([i \in 1..Len(a) |-> IF a[i] = 1 \/ b[i] = 1 THEN 1 ELSE 0])

\* `v as u8`: the low 8 bits
AsU8(v) == BitsByte(v, Len(v) - 7)

\* v.to_be_bytes()
ToBeBytes(v) == Strict([k \in 1..(Len(v) \div 8) |-> BitsByte(v, 8 * k - 7)])

\* u8 arithmetic
RECURSIVE ByteOr(_, _)
ByteOr(a, b) ==
    IF a = 0 THEN b
    ELSE IF b = 0 THEN a
    ELSE 2 * ByteOr(a \div 2, b \div 2) + (IF a % 2 = 1 \/ b % 2 = 1 THEN 1 ELSE 0)
RECURSIVE ByteAnd(_, _)
ByteAnd(a, b) ==
    IF a = 0 \/ b = 0 THEN 0
    ELSE 2 * ByteAnd(a \div 2, b \div 2) + (IF a % 2 = 1 /\ b % 2 = 1 THEN 1 ELSE 0)
Shl8(v, s) == (v * Pow2(s)) % 256
Shr8(v, s) == v \div Pow2(s)

RECURSIVE FromBytes(_)
FromBytes(bytes) ==
    IF Len(bytes) = 0 THEN <<>> ELSE ByteBits(bytes[1]) \o FromBytes(Tail(bytes))

\* a value made of the byte pattern p repeated to n bytes
RepBytes(p, n) == FromBytes(Strict([k \in 1..n |-> p[((k - 1) % Len(p)) + 1]]))

-----------------------------------------------------------------------------
(* cell/builder.rs *)

MAX_BIT_LEN == 1023
MAX_REF_COUNT == 4
DataLen == 128
U16Mod == 65536

NoMask == <<>>

\* CellBuilder::new
new ==
    [data |-> Zeros(DataLen),
     level_mask |-> NoMask,
     bit_len |-> 0,
     references |-> <<>>]

\* the outcome of one call: the builder after it, what it returned, how it ended
Outcome(self, ret, f) == [self |-> self, ret |-> ret, fault |-> f]
Returned(self, ret) == Outcome(self, ret, "none")
Panicked(self) == Outcome(self, FALSE, "panic")
Undefined(self) == Outcome(self, FALSE, "ub")

\* the data buffer is the tuple of its 128 bytes: byte q is data[q + 1]
\* std::ptr::copy_nonoverlapping(bytes, data + q, n) / get_unchecked_mut(q) = ..
InBuffer(q, n) == q + n <= DataLen
WriteBytes(data, q, bytes, n) ==
    SubSeq(data, 1, q) \o SubSeq(bytes, 1, n) \o SubSeq(data, q + n + 1, DataLen)
SetByte(data, q, byte) == [data EXCEPT ![q + 1] = byte]
OrByte(data, q, byte) == [data EXCEPT ![q + 1] = ByteOr(@, byte)]

\* `self.bit_len + bits <= MAX_BIT_LEN` on u16: the sum panics with overflow
\* checks and wraps without
Overflows(a, b) == a + b >= U16Mod
Add16(a, b) == (a + b) % U16Mod


\* a variant of store_zeroes that fills the builder up when the bits do not fit
ZeroesFillUp(self, bits, oc) ==
    IF Overflows(self.bit_len, bits) /\ oc THEN Panicked(self)
    ELSE IF Add16(self.bit_len, bits) <= MAX_BIT_LEN
         THEN Returned([self EXCEPT !.bit_len = Add16(@, bits)], TRUE)
         ELSE Returned([self EXCEPT !.bit_len = MAX_BIT_LEN], FALSE)

\* CellBuilder::store_zeroes
store_zeroes(self, bits, oc) ==
    IF Overflows(self.bit_len, bits) /\ oc THEN Panicked(self)
    ELSE IF Add16(self.bit_len, bits) <= MAX_BIT_LEN
         THEN Returned([self EXCEPT !.bit_len = Add16(@, bits)], TRUE)
         ELSE Returned(self, FALSE)

\* CellBuilder::store_bit_zero
store_bit_zero(self) ==
    LET fits == self.bit_len < MAX_BIT_LEN
    IN  Returned([self EXCEPT !.bit_len = @ + (IF fits THEN 1 ELSE 0)], fits)

\* CellBuilder::store_bit_true
store_bit_true(self) ==
    IF self.bit_len < MAX_BIT_LEN
    THEN LET q == self.bit_len \div 8
             r == self.bit_len % 8
         IN  Returned([self EXCEPT !.data = OrByte(@, q, Pow2(7 - r)),
                                   !.bit_len = @ + 1], TRUE)
    ELSE Returned(self, FALSE)

\* CellBuilder::store_u8
store_u8(self, value, oc) ==
    IF self.bit_len + 8 <= MAX_BIT_LEN
    THEN LET q == self.bit_len \div 8
             r == self.bit_len % 8
             data == IF r = 0
                     THEN SetByte(self.data, q, value)
                     ELSE SetByte(OrByte(self.data, q, Shr8(value, r)),
                                  q + 1, Shl8(value, 8 - r))
         IN  Returned([self EXCEPT !.data = data, !.bit_len = @ + 8], TRUE)
    ELSE Returned(self, FALSE)

\* impl_store_uint!(self, value, bytes, bits): store_u16 .. store_u128
impl_store_uint(self, value, bytes, bits, oc) ==
    IF self.bit_len + bits <= MAX_BIT_LEN
    THEN LET q == self.bit_len \div 8
             r == self.bit_len % 8
         IN  IF ~InBuffer(q, bytes + (IF r > 0 THEN 1 ELSE 0))
             THEN (IF oc THEN Panicked(self) ELSE Undefined(self))
             ELSE LET data ==
                      IF r = 0
                      THEN WriteBytes(self.data, q, ToBeBytes(value), bytes)
                      ELSE WriteBytes(OrByte(self.data, q, AsU8(Shr(value, bits - 8 + r))),
                                      q + 1, ToBeBytes(Shl(value, 8 - r)), bytes)
                  IN  Returned([self EXCEPT !.data = data, !.bit_len = @ + bits], TRUE)
    ELSE Returned(self, FALSE)

store_u16(self, value, oc) == impl_store_uint(self, value, 2, 16, oc)
store_u32(self, value, oc) == impl_store_uint(self, value, 4, 32, oc)
store_u64(self, value, oc) == impl_store_uint(self, value, 8, 64, oc)
\* a variant of store_u128 that stores the low 64 bits first
U128LowFirst(self, value, oc) ==
    impl_store_uint(self, SubSeq(value, 65, 128) \o SubSeq(value, 1, 64), 16, 128, oc)
store_u128(self, value, oc) == impl_store_uint(self, value, 16, 128, oc)

\* CellBuilder::store_u256: value is 32 bytes, read as two big-endian u128
store_u256(self, value, oc) ==
    IF self.bit_len + 256 <= MAX_BIT_LEN
    THEN LET q == self.bit_len \div 8
             r == self.bit_len % 8
         IN  IF ~InBuffer(q, 32 + (IF r > 0 THEN 1 ELSE 0))
             THEN (IF oc THEN Panicked(self) ELSE Undefined(self))
             ELSE LET hi == SubSeq(value, 1, 128)
                      lo == SubSeq(value, 129, 256)
                      shift == 8 - r
                      data ==
                        IF r = 0
                        THEN WriteBytes(self.data, q, ToBeBytes(value), 32)
                        ELSE WriteBytes(
                               WriteBytes(
                                 OrByte(self.data, q, AsU8(Shr(hi, 128 - shift))),
                                 q + 1,
                                 ToBeBytes(BitOrV(Shl(hi, shift), Shr(lo, 128 - shift))),
                                 16),
                               q + 17, ToBeBytes(Shl(lo, shift)), 16)
                  IN  Returned([self EXCEPT !.data = data, !.bit_len = @ + 256], TRUE)
    ELSE Returned(self, FALSE)

\* CellBuilder::store_small_uint: value is a u8, bits a u16
store_small_uint(self, value0, bits0, oc) ==
    IF bits0 = 0 THEN Returned(self, TRUE)
    ELSE IF Overflows(self.bit_len, bits0) /\ oc THEN Panicked(self)
    ELSE IF Add16(self.bit_len, bits0) <= MAX_BIT_LEN
    THEN LET bit_len1 == IF bits0 >= 8 THEN Add16(self.bit_len, bits0 - 8) ELSE self.bit_len
             bits == IF bits0 >= 8 THEN 8 ELSE bits0
             value == Shl8(value0, 8 - bits)
             q == bit_len1 \div 8
             r == bit_len1 % 8
             second == r # 0 /\ bits + r > 8
         IN  IF ~InBuffer(q, IF second THEN 2 ELSE 1)
             THEN (IF oc THEN Panicked(self) ELSE Undefined(self))
             ELSE LET data ==
                        IF r = 0 THEN SetByte(self.data, q, value)
                        ELSE IF second
                             THEN SetByte(OrByte(self.data, q, Shr8(value, r)),
                                          q + 1, Shl8(value, 8 - r))
                             ELSE OrByte(self.data, q, Shr8(value, r))
                  IN  Returned([self EXCEPT !.data = data,
                                            !.bit_len = Add16(bit_len1, bits)], TRUE)
    ELSE Returned(self, FALSE)

\* CellBuilder::store_uint: value is a u64, bits a u16
store_uint(self, value0, bits0, oc) ==
    IF bits0 = 0 THEN Returned(self, TRUE)
    ELSE IF Overflows(self.bit_len, bits0) /\ oc THEN Panicked(self)
    ELSE IF Add16(self.bit_len, bits0) <= MAX_BIT_LEN
    THEN LET bit_len1 == IF bits0 >= 64 THEN Add16(self.bit_len, bits0 - 64) ELSE self.bit_len
             bits == IF bits0 >= 64 THEN 64 ELSE bits0
             value == Shl(value0, 64 - bits)
             q == bit_len1 \div 8
             r == bit_len1 % 8
             shift == 8 - r
             rest == bits - shift
             byte_len == IF r = 0 THEN (bits + 7) \div 8
                         ELSE IF rest > 0 THEN (rest + 7) \div 8 ELSE 0
             first == IF r = 0 THEN 0 ELSE 1
         IN  IF ~InBuffer(q, first + byte_len) \/ q >= DataLen
             THEN (IF oc THEN Panicked(self) ELSE Undefined(self))
             ELSE LET data ==
                        IF r = 0
                        THEN WriteBytes(self.data, q, ToBeBytes(value), byte_len)
                        ELSE WriteBytes(OrByte(self.data, q, AsU8(Shr(value, 64 - shift))),
                                        q + 1, ToBeBytes(Shl(value, shift)), byte_len)
                  IN  Returned([self EXCEPT !.data = data,
                                            !.bit_len = Add16(bit_len1, bits)], TRUE)
    ELSE Returned(self, FALSE)

\* CellBuilder::store_reference
store_reference(self, cell) ==
    IF Len(self.references) < MAX_REF_COUNT
    THEN Returned([self EXCEPT !.references = Append(@, cell)], TRUE)
    ELSE Returned(self, FALSE)

\* CellBuilder::set_level_mask
set_level_mask(self, level_mask) == [self EXCEPT !.level_mask = <<level_mask>>]


\* LevelMask: 3 bits; `|=` is the bitwise union
MaskUnion(a, b) == ByteOr(a, b)

RECURSIVE ChildrenMask(_)
ChildrenMask(refs) ==
    IF Len(refs) = 0 THEN 0
    ELSE MaskUnion(ChildrenMask(SubSeq(refs, 1, Len(refs) - 1)), refs[Len(refs)].level_mask)

RECURSIVE ChildrenStats(_)
ChildrenStats(refs) ==
    IF Len(refs) = 0 THEN [bit_count |-> 0, cell_count |-> 0]
    ELSE LET rest == ChildrenStats(SubSeq(refs, 1, Len(refs) - 1))
             last == refs[Len(refs)].stats
         IN  [bit_count |-> rest.bit_count + last.bit_count,
              cell_count |-> rest.cell_count + last.cell_count]

\* a variant of compute_level_mask that ignores the override
MaskOfChildren(self) == ChildrenMask(self.references)

\* CellBuilder::compute_level_mask
compute_level_mask(self) ==
    IF self.level_mask # NoMask THEN self.level_mask[1] ELSE ChildrenMask(self.references)

\* CellDescriptor::compute_d1 / compute_d2
compute_d1(level_mask, is_exotic, ref_count) ==
    32 * level_mask + 8 * (IF is_exotic THEN 1 ELSE 0) + ref_count
compute_d2(bit_len) == (bit_len \div 8) + ((bit_len + 7) \div 8)

Min(a, b) == IF a < b THEN a ELSE b

\* a variant of completion_tag that leaves the last byte as it is
Untagged(data, bit_len) == data

\* build_ext: the completion tag written into the last, partial byte
completion_tag(data, bit_len) ==
    LET rem == bit_len % 8
        last_byte == bit_len \div 8
        tag_mask == Pow2(7 - rem)
        data_mask == 255 - (tag_mask - 1)
    IN  IF rem > 0
        THEN SetByte(data, last_byte, ByteOr(ByteAnd(data[last_byte + 1], data_mask), tag_mask))
        ELSE data

\* CellBuilder::build_ext: the PartialCell handed to the finalizer
build_ext(self) ==
    LET children == ChildrenStats(self.references)
        stats == [bit_count |-> self.bit_len + children.bit_count,
                  cell_count |-> 1 + children.cell_count]
        children_mask == ChildrenMask(self.references)
        is_exotic == self.level_mask # NoMask
        level_mask == IF is_exotic THEN self.level_mask[1] ELSE children_mask
        d1 == compute_d1(level_mask, is_exotic, Len(self.references))
        d2 == compute_d2(self.bit_len)
        data == completion_tag(self.data, self.bit_len)
        byte_len == (self.bit_len + 7) \div 8
    IN  [stats |-> stats,
         bit_len |-> self.bit_len,
         descriptor |-> [d1 |-> d1, d2 |-> d2],
         children_mask |-> children_mask,
         references |-> self.references,
         data |-> SubSeq(data, 1, Min(byte_len, DataLen))]

-----------------------------------------------------------------------------
(* The builder's callers: the arguments the model draws *)

\* data appends per builder
MaxOps == 2

NoCell == <<>>

\* the finished cells the caller references, in the order it stores them:
\* each with its level mask and tree stats
Children ==
    << [level_mask |-> 1, stats |-> [bit_count |-> 8, cell_count |-> 1]],
       [level_mask |-> 2, stats |-> [bit_count |-> 3, cell_count |-> 2]],
       [level_mask |-> 0, stats |-> [bit_count |-> 0, cell_count |-> 1]],
       [level_mask |-> 1, stats |-> [bit_count |-> 1023, cell_count |-> 5]],
       [level_mask |-> 4, stats |-> [bit_count |-> 1, cell_count |-> 1]] >>

U8Values == {5, 255}
BitPatterns == { <<255>>, <<170, 255>> }
U128Patterns == BitPatterns \cup { <<1, 2, 3>> }
Value(p, bytes) == RepBytes(p, bytes)
ZeroesBits == {0, 3, 767, 959, 1015, 1020, 1023, 1024, 65535}
SmallBits == {0, 3, 9, 65535}
UintBits == {0, 1, 33, 64, 65, 65535}

Alive == fault = "none" /\ built = NoCell /\ nops < MaxOps

\* one append call: `bits` is the number of bits it asks to append, `value`
\* the integer it passes where the claims need it
AppendValue(op, bits, value, out) ==
    /\ builder' = out.self
    /\ fault' = out.fault
    /\ call' = [op |-> op, bits |-> bits, value |-> value, before |-> builder,
                ret |-> out.ret]
    /\ nops' = nops + 1
    /\ UNCHANGED <<overflow_checks, built, otherThanBuilder>>

Append1(op, bits, out) == AppendValue(op, bits, <<>>, out)

StoreZeroes ==
    /\ Alive
    /\ \E bits \in ZeroesBits :
          Append1("store_zeroes", bits, store_zeroes(builder, bits, overflow_checks))

StoreBitZero == Alive /\ Append1("store_bit_zero", 1, store_bit_zero(builder))

StoreBitTrue == Alive /\ Append1("store_bit_true", 1, store_bit_true(builder))

StoreU8 ==
    /\ Alive
    /\ \E v \in U8Values : Append1("store_u8", 8, store_u8(builder, v, overflow_checks))

StoreU16 ==
    /\ Alive
    /\ \E p \in BitPatterns :
          Append1("store_u16", 16, store_u16(builder, Value(p, 2), overflow_checks))

StoreU32 ==
    /\ Alive
    /\ \E p \in BitPatterns :
          Append1("store_u32", 32, store_u32(builder, Value(p, 4), overflow_checks))

StoreU64 ==
    /\ Alive
    /\ \E p \in BitPatterns :
          Append1("store_u64", 64, store_u64(builder, Value(p, 8), overflow_checks))

StoreU128 ==
    /\ Alive
    /\ \E p \in U128Patterns :
          AppendValue("store_u128", 128, Value(p, 16),
                      store_u128(builder, Value(p, 16), overflow_checks))

StoreU256 ==
    /\ Alive
    /\ \E p \in BitPatterns :
          Append1("store_u256", 256, store_u256(builder, Value(p, 32), overflow_checks))

StoreSmallUint ==
    /\ Alive
    /\ \E v \in U8Values, bits \in SmallBits :
          Append1("store_small_uint", bits, store_small_uint(builder, v, bits, overflow_checks))

StoreUint ==
    /\ Alive
    /\ \E p \in BitPatterns, bits \in UintBits :
          AppendValue("store_uint", bits, Value(p, 8),
                      store_uint(builder, Value(p, 8), bits, overflow_checks))

\* the caller stores its references before the data
StoreReference ==
    /\ Alive /\ nops = 0 /\ call.op \in {"new", "store_reference"} /\ call.ret
    /\ LET out == store_reference(builder, Children[Len(builder.references) + 1])
       IN  /\ builder' = out.self
           /\ call' = [op |-> "store_reference", bits |-> 0, value |-> <<>>, before |-> builder, ret |-> out.ret]
           /\ UNCHANGED <<overflow_checks, fault, built, nops, otherThanBuilder>>

SetLevelMask ==
    /\ Alive /\ nops = 0 /\ builder.level_mask = NoMask
    /\ \E m \in {3} :
          /\ builder' = set_level_mask(builder, m)
          /\ call' = [op |-> "set_level_mask", bits |-> 0, value |-> <<>>, before |-> builder, ret |-> TRUE]
          /\ UNCHANGED <<overflow_checks, fault, built, nops, otherThanBuilder>>

Build ==
    /\ fault = "none" /\ built = NoCell
    /\ built' = <<build_ext(builder)>>
    /\ call' = [op |-> "build_ext", bits |-> 0, value |-> <<>>, before |-> builder, ret |-> TRUE]
    /\ UNCHANGED <<overflow_checks, builder, fault, nops, otherThanBuilder>>

\* the built builder is consumed; the caller starts a new one
New ==
    /\ fault = "none" /\ built # NoCell /\ nops < MaxOps
    /\ builder' = new
    /\ built' = NoCell
    /\ call' = [op |-> "new", bits |-> 0, value |-> <<>>, before |-> new, ret |-> TRUE]
    /\ UNCHANGED <<overflow_checks, fault, nops, otherThanBuilder>>

BuilderInit ==
    /\ overflow_checks \in BOOLEAN
    /\ builder = new
    /\ fault = "none"
    /\ call = [op |-> "new", bits |-> 0, value |-> <<>>, before |-> new, ret |-> TRUE]
    /\ built = NoCell
    /\ nops = 0

BuilderNext ==
    \/ StoreZeroes \/ StoreBitZero \/ StoreBitTrue
    \/ StoreU8 \/ StoreU16 \/ StoreU32 \/ StoreU64 \/ StoreU128 \/ StoreU256
    \/ StoreSmallUint \/ StoreUint \/ StoreReference
    \/ SetLevelMask \/ Build \/ New

-----------------------------------------------------------------------------
(* dict: the trie of an AugDict<K, bool, V>                                 *)
(* A cell of the trie is [label, refs, data]: the edge label read by        *)
(* read_label, the child cells, and the data bits that follow the label     *)
(* (a leaf: extra then value; a fork: the extra the comparator wrote).      *)

\* K::BITS and the width of V
KeyBits == 4
ValueBits == 2

None == <<>>
Some(x) == <<x>>

Ok(v) == [ok |-> TRUE, val |-> v, err |-> ""]
Err(e) == [ok |-> FALSE, val |-> <<>>, err |-> e]

\* K::store_into / K::load_from: a big-endian unsigned key
StoreKey(k) == ToBits(k, KeyBits)
LoadKey(bits) == BitsToInt(bits)

\* bool::store_into / load_from, V::store_into / load_from
StoreExtra(e) == IF e THEN <<1>> ELSE <<0>>
LoadExtra(slice) == IF Len(slice) < 1 THEN Err("CellUnderflow") ELSE Ok(slice[1] = 1)
StoreValue(v) == ToBits(v, ValueBits)
LoadValue(slice) ==
    IF Len(slice) < ValueBits THEN Err("CellUnderflow")
    ELSE Ok(BitsToInt(SubSeq(slice, 1, ValueBits)))

\* read_label: the label of the edge; it cannot be longer than the key bits left
read_label(cell, key_bit_len) ==
    IF Len(cell.label) > key_bit_len THEN Err("CellUnderflow") ELSE Ok(cell.label)

\* CellSlice::longest_common_data_prefix: its length
RECURSIVE Lcp(_, _)
Lcp(a, b) ==
    IF Len(a) = 0 \/ Len(b) = 0 \/ a[1] # b[1] THEN 0 ELSE 1 + Lcp(Tail(a), Tail(b))

\* tests::bool_or_comp: the comparator of the tests, on the two extras' slices
bool_or_comp(left, right) ==
    IF Len(left) < 1 \/ Len(right) < 1 THEN Err("CellUnderflow")
    ELSE Ok(IF left[1] = 1 \/ right[1] = 1 THEN <<1>> ELSE <<0>>)

Leaf(label, data) == [label |-> label, refs |-> <<>>, data |-> data]

\* a fork over two children: the comparator writes its extra
Fork(label, left, right) ==
    LET extra == bool_or_comp(left.data, right.data)
    IN  IF extra.ok THEN Ok([label |-> label, refs |-> <<left, right>>, data |-> extra.val])
        ELSE Err(extra.err)

Unchanged(cell) == [ok |-> TRUE, changed |-> FALSE, cell |-> cell, err |-> ""]
Changed(cell) == [ok |-> TRUE, changed |-> TRUE, cell |-> cell, err |-> ""]
Failed(cell, e) == [ok |-> FALSE, changed |-> FALSE, cell |-> cell, err |-> e]
Rebuilt(fork, old) == IF fork.ok THEN Changed(fork.val) ELSE Failed(old, fork.err)

\* aug_dict_insert below the root: the subtree at `cell` with `key` set
RECURSIVE InsertAt(_, _, _, _)
InsertAt(cell, key, data, mode) ==
    LET label == read_label(cell, Len(key))
        l == Lcp(cell.label, key)
    IN  IF ~label.ok THEN Failed(cell, label.err)
        ELSE IF l = Len(key)
        THEN \* the key is stored here
             IF mode = "Add" THEN Unchanged(cell) ELSE Changed(Leaf(cell.label, data))
        ELSE IF l < Len(cell.label)
        THEN \* the edge diverges from the key: split it
             IF mode = "Replace" THEN Unchanged(cell)
             ELSE LET old == [cell EXCEPT !.label = SubSeq(cell.label, l + 2, Len(cell.label))]
                      leaf == Leaf(SubSeq(key, l + 2, Len(key)), data)
                      prefix == SubSeq(key, 1, l)
                  IN  Rebuilt(IF key[l + 1] = 0 THEN Fork(prefix, leaf, old)
                              ELSE Fork(prefix, old, leaf), cell)
        ELSE IF Len(cell.refs) # 2 THEN Failed(cell, "CellUnderflow")
        ELSE LET bit == key[l + 1]
                 sub == InsertAt(cell.refs[bit + 1], SubSeq(key, l + 2, Len(key)), data, mode)
             IN  IF ~sub.ok THEN Failed(cell, sub.err)
                 ELSE IF ~sub.changed THEN Unchanged(cell)
                 ELSE Rebuilt(IF bit = 0 THEN Fork(cell.label, sub.cell, cell.refs[2])
                              ELSE Fork(cell.label, cell.refs[1], sub.cell), cell)

\* aug_dict_insert: [ok, inserted, root]; the root is replaced only on success
aug_dict_insert(root, key, extra, value, mode) ==
    LET data == StoreExtra(extra) \o StoreValue(value)
    IN  IF root = None
        THEN IF mode = "Replace" THEN [ok |-> TRUE, inserted |-> FALSE, root |-> root, err |-> ""]
             ELSE [ok |-> TRUE, inserted |-> TRUE, root |-> Some(Leaf(key, data)), err |-> ""]
        ELSE LET r == InsertAt(root[1], key, data, mode)
             IN  [ok |-> r.ok, inserted |-> r.changed,
                  root |-> IF r.ok /\ r.changed THEN Some(r.cell) ELSE root, err |-> r.err]

\* aug_dict_remove_owned below the root: [ok, found, cell (None: the subtree is
\* gone), removed (the removed leaf's data)]
NotFound(cell) == [ok |-> TRUE, found |-> FALSE, cell |-> Some(cell), removed |-> <<>>, err |-> ""]
Removed(cell, data) == [ok |-> TRUE, found |-> TRUE, cell |-> cell, removed |-> data, err |-> ""]
RemoveFailed(cell, e) == [ok |-> FALSE, found |-> FALSE, cell |-> Some(cell), removed |-> <<>>, err |-> e]

\* the sibling of a removed leaf takes the place of the fork: the fork's label,
\* the sibling's branch bit and the sibling's label are merged
Collapse(fork, bit, key_bit_len) ==
    LET sibling == fork.refs[bit + 1]
        label == read_label(sibling, key_bit_len - Len(fork.label) - 1)
    IN  IF ~label.ok THEN Err(label.err)
        ELSE Ok([sibling EXCEPT !.label = fork.label \o <<bit>> \o label.val])

RECURSIVE RemoveAt(_, _)
RemoveAt(cell, key) ==
    LET label == read_label(cell, Len(key))
        l == Lcp(cell.label, key)
    IN  IF ~label.ok THEN RemoveFailed(cell, label.err)
        ELSE IF l = Len(key) THEN Removed(None, cell.data)
        ELSE IF l < Len(cell.label) THEN NotFound(cell)
        ELSE IF Len(cell.refs) # 2 THEN RemoveFailed(cell, "CellUnderflow")
        ELSE LET bit == key[l + 1]
                 sub == RemoveAt(cell.refs[bit + 1], SubSeq(key, l + 2, Len(key)))
             IN  IF ~sub.ok THEN RemoveFailed(cell, sub.err)
                 ELSE IF ~sub.found THEN NotFound(cell)
                 ELSE IF sub.cell = None
                 THEN LET merged == Collapse(cell, 1 - bit, Len(key))
                      IN  IF merged.ok THEN Removed(Some(merged.val), sub.removed)
                          ELSE RemoveFailed(cell, merged.err)
                 ELSE LET fork == IF bit = 0 THEN Fork(cell.label, sub.cell[1], cell.refs[2])
                                  ELSE Fork(cell.label, cell.refs[1], sub.cell[1])
                      IN  IF fork.ok THEN Removed(Some(fork.val), sub.removed)
                          ELSE RemoveFailed(cell, fork.err)

\* aug_dict_remove_owned: [ok, removed (Option of the leaf's data), root]
aug_dict_remove_owned(root, key) ==
    IF root = None THEN [ok |-> TRUE, removed |-> None, root |-> root, err |-> ""]
    ELSE LET r == RemoveAt(root[1], key)
         IN  IF ~r.ok THEN [ok |-> FALSE, removed |-> None, root |-> root, err |-> r.err]
             ELSE IF ~r.found THEN [ok |-> TRUE, removed |-> None, root |-> root, err |-> ""]
             ELSE [ok |-> TRUE, removed |-> Some(r.removed), root |-> r.cell, err |-> ""]

\* Dict::get: the data of the leaf stored under the key
RECURSIVE Lookup(_, _)
Lookup(cell, key) ==
    LET label == read_label(cell, Len(key))
        l == Lcp(cell.label, key)
    IN  IF ~label.ok THEN Err(label.err)
        ELSE IF l = Len(key) THEN Ok(Some(cell.data))
        ELSE IF l < Len(cell.label) THEN Ok(None)
        ELSE IF Len(cell.refs) # 2 THEN Err("CellUnderflow")
        ELSE Lookup(cell.refs[key[l + 1] + 1], SubSeq(key, l + 2, Len(key)))

\* <(A, V) as Load>::load_from: the extra, then the value
LoadEntry(slice) ==
    LET extra == LoadExtra(slice)
        value == LoadValue(SubSeq(slice, 2, Len(slice)))
    IN  IF ~extra.ok THEN Err(extra.err)
        ELSE IF ~value.ok THEN Err(value.err)
        ELSE Ok(<<extra.val, value.val>>)

\* Iter: the entries in the order of a left-to-right walk; it finishes after
\* the first invalid element
IterItem(key, slice) ==
    LET entry == LoadEntry(slice)
    IN  IF entry.ok THEN Ok(<<LoadKey(key), entry.val[1], entry.val[2]>>) ELSE Err(entry.err)

Finished(items) == items # <<>> /\ ~items[Len(items)].ok

RECURSIVE Walk(_, _, _)
Walk(cell, prefix, key_bit_len) ==
    LET label == read_label(cell, key_bit_len)
        key == prefix \o cell.label
        rest == key_bit_len - Len(cell.label) - 1
        left == Walk(cell.refs[1], key \o <<0>>, rest)
    IN  IF ~label.ok THEN <<Err(label.err)>>
        ELSE IF Len(cell.label) = key_bit_len THEN <<IterItem(key, cell.data)>>
        ELSE IF Len(cell.refs) # 2 THEN <<Err("CellUnderflow")>>
        ELSE IF Finished(left) THEN left
        ELSE left \o Walk(cell.refs[2], key \o <<1>>, rest)

-----------------------------------------------------------------------------
(* dict/aug.rs: AugDict<K, bool, V>, a record [root, extra]                 *)

AugDictNew == [root |-> None, extra |-> FALSE]

\* a variant that keeps the cached extra as it is
KeepRootExtra(self) == Ok(self)

update_root_extra(self) ==
    IF self.root = None THEN Ok([self EXCEPT !.extra = FALSE])
    ELSE LET root == self.root[1]
             prefix == read_label(root, KeyBits)
             extra == LoadExtra(root.data)
         IN  IF ~prefix.ok THEN Err(prefix.err)
             ELSE IF Len(prefix.val) # KeyBits /\ Len(root.refs) < 2 THEN Err("CellUnderflow")
             ELSE IF ~extra.ok THEN Err(extra.err)
             ELSE Ok([self EXCEPT !.extra = extra.val])

Call(self, ret) == [self |-> self, ret |-> ret]

\* aug_dict_insert works on &mut self.dict.root; the extra is refreshed after it
insert_impl(self, key, extra, value, mode) ==
    LET inserted == aug_dict_insert(self.root, StoreKey(key), extra, value, mode)
        swapped == [self EXCEPT !.root = inserted.root]
        updated == update_root_extra(swapped)
    IN  IF ~inserted.ok THEN Call(swapped, Err(inserted.err))
        ELSE IF ~inserted.inserted THEN Call(swapped, Ok(FALSE))
        ELSE IF ~updated.ok THEN Call(swapped, Err(updated.err))
        ELSE Call(updated.val, Ok(TRUE))

remove_impl(self, key) ==
    LET res == aug_dict_remove_owned(self.root, StoreKey(key))
        swapped == [self EXCEPT !.root = res.root]
        updated == update_root_extra(swapped)
    IN  IF ~res.ok THEN Call(swapped, Err(res.err))
        ELSE IF res.removed = None THEN Call(swapped, Ok(None))
        ELSE IF ~updated.ok THEN Call(swapped, Err(updated.err))
        ELSE Call(updated.val, Ok(res.removed))

\* a variant of set_ext that does not overwrite
SetAsAdd(self, key, aug, value) == insert_impl(self, key, aug, value, "Add")

set_ext(self, key, aug, value) == insert_impl(self, key, aug, value, "Set")

\* a variant of replace_ext that also inserts
ReplaceAsSet(self, key, aug, value) == insert_impl(self, key, aug, value, "Set")

replace_ext(self, key, aug, value) == insert_impl(self, key, aug, value, "Replace")

add_ext(self, key, aug, value) == insert_impl(self, key, aug, value, "Add")

\* remove: the removed leaf is decoded into (A, V)
remove(self, key) ==
    LET raw == remove_impl(self, key)
        entry == LoadEntry(raw.ret.val[1])
    IN  IF ~raw.ret.ok \/ raw.ret.val = None THEN raw
        ELSE IF ~entry.ok THEN Call(raw.self, Err(entry.err))
        ELSE Call(raw.self, Ok(Some(entry.val)))

get(self, key) ==
    LET raw == IF self.root = None THEN Ok(None) ELSE Lookup(self.root[1], StoreKey(key))
        entry == LoadEntry(raw.val[1])
    IN  IF ~raw.ok \/ raw.val = None THEN raw
        ELSE IF ~entry.ok THEN Err(entry.err)
        ELSE Ok(Some(entry.val))

\* a variant of iter that stops after the first entry
IterFirst(self) ==
    IF self.root = None THEN <<>> ELSE SubSeq(Walk(self.root[1], <<>>, KeyBits), 1, 1)

iter(self) == IF self.root = None THEN <<>> ELSE Walk(self.root[1], <<>>, KeyBits)

-----------------------------------------------------------------------------
(* dict/ops/find.rs *)

Left == 0
Right == 1
reversed(branch) == 1 - branch

\* DictBound::into_branch
into_branch(towards) == IF towards = "Min" THEN Left ELSE Right

Segment(data, next_branch, key_bit_len) ==
    [data |-> data, next_branch |-> next_branch, key_bit_len |-> key_bit_len]

FoundLeaf(leaf, branch, data, key, stack) ==
    [ok |-> TRUE, leaf |-> leaf, branch |-> branch, data |-> data, key |-> key,
     stack |-> stack, err |-> ""]
NoLeaf(e) ==
    [ok |-> FALSE, leaf |-> "", branch |-> Left, data |-> <<>>, key |-> <<>>,
     stack |-> <<>>, err |-> e]

\* a variant of diverged that never reverses
NotReversed(next_branch, signed, stack, lcp_len) == next_branch

\* the branch of a divergence: reversed once, at the root bit, when signed
diverged(next_branch, signed, stack, lcp_len) ==
    IF signed /\ stack = <<>> /\ lcp_len = 0 THEN reversed(next_branch) ELSE next_branch

\* the first loop: try to find the required leaf
RECURSIVE FindLeaf(_, _, _, _)
FindLeaf(data, key, stack, signed) ==
    LET prefix == read_label(data, Len(key))
        lcp_len == Lcp(key, data.label)
        next_branch == key[lcp_len + 1]
        rest == SubSeq(key, lcp_len + 2, Len(key))
    IN  IF ~prefix.ok THEN NoLeaf(prefix.err)
        ELSE IF lcp_len = Len(key) THEN FoundLeaf("Value", Left, data, key, stack)
        ELSE IF lcp_len < Len(prefix.val)
        THEN FoundLeaf("Divergence", diverged(next_branch, signed, stack, lcp_len),
                       data, key, stack)
        ELSE IF Len(data.refs) # 2 THEN NoLeaf("CellUnderflow")
        ELSE FindLeaf(data.refs[next_branch + 1], rest,
                      Append(stack, Segment(data, next_branch, Len(rest))), signed)

ForkAt(data, remaining_bits, first_branch, prefix_len) ==
    [data |-> data, remaining_bits |-> remaining_bits, first_branch |-> first_branch,
     prefix_len |-> prefix_len]

\* pop until the first diverged branch
RECURSIVE Rewind(_, _, _, _)
Rewind(stack, key_bit_len, rev_direction, signed) ==
    IF stack = <<>> THEN None
    ELSE LET seg == stack[Len(stack)]
             prefix_len == key_bit_len - seg.key_bit_len
             signed_root == signed /\ prefix_len = 1
         IN  IF signed_root /\ seg.next_branch # rev_direction
             THEN Some(ForkAt(seg.data, seg.key_bit_len, Some(rev_direction), prefix_len - 1))
             ELSE IF ~signed_root /\ seg.next_branch = rev_direction
             THEN Some(ForkAt(seg.data, seg.key_bit_len, Some(reversed(rev_direction)),
                              prefix_len - 1))
             ELSE Rewind(SubSeq(stack, 1, Len(stack) - 1), key_bit_len, rev_direction, signed)

Entry(key, value) == [key |-> key, value |-> value]

\* the final loop: walk towards rev_direction down to a leaf
RECURSIVE FindEdge(_, _, _, _)
FindEdge(data, remaining_bits, result_key, rev_direction) ==
    LET prefix == read_label(data, remaining_bits)
        key == result_key \o data.label
    IN  IF ~prefix.ok THEN Err(prefix.err)
        ELSE IF remaining_bits - Len(prefix.val) = 0 THEN Ok(Some(Entry(key, data.data)))
        ELSE IF Len(data.refs) < 2 THEN Err("CellUnderflow")
        ELSE FindEdge(data.refs[rev_direction + 1], remaining_bits - Len(prefix.val) - 1,
                      key \o <<rev_direction>>, rev_direction)

\* a variant of dict_find_owned that only finds the exact key
FindExact(dict, key_bit_len, key, towards, inclusive, signed) ==
    IF dict = None THEN Ok(None)
    ELSE LET leaf == FindLeaf(dict[1], key, <<>>, signed)
         IN  IF leaf.ok /\ leaf.leaf = "Value" /\ inclusive
             THEN Ok(Some(Entry(key, leaf.data.data))) ELSE Ok(None)

dict_find_owned(dict, key_bit_len, key, towards, inclusive, signed) ==
    IF Len(key) # key_bit_len THEN Err("CellUnderflow")
    ELSE IF dict = None THEN Ok(None)
    ELSE LET leaf == FindLeaf(dict[1], key, <<>>, signed)
             rev_direction == reversed(into_branch(towards))
             fork == IF leaf.leaf = "Divergence" /\ leaf.branch = rev_direction
                     THEN Some(ForkAt(leaf.data, Len(leaf.key), None,
                                      key_bit_len - Len(leaf.key)))
                     ELSE Rewind(leaf.stack, key_bit_len, rev_direction, signed)
             result_key == SubSeq(key, 1, fork[1].prefix_len)
             branch == fork[1].first_branch[1]
             data == fork[1].data
         IN  IF ~leaf.ok THEN Err(leaf.err)
             ELSE IF inclusive /\ leaf.leaf = "Value" THEN Ok(Some(Entry(key, leaf.data.data)))
             ELSE IF fork = None THEN Ok(None)
             ELSE IF fork[1].first_branch = None
             THEN FindEdge(data, fork[1].remaining_bits, result_key, rev_direction)
             ELSE IF Len(data.refs) <= branch THEN Err("CellUnderflow")
             ELSE FindEdge(data.refs[branch + 1], fork[1].remaining_bits,
                           result_key \o <<branch>>, rev_direction)

\* DictBound::update_direction: the branch of the bound at every fork; when
\* signed it is reversed once, at the first fork, if that fork is at the root
\* bit (the label read there is empty)
update_direction(bound, prefix, signed, direction) ==
    IF direction # None THEN [branch |-> direction[1], direction |-> direction]
    ELSE [branch |-> IF signed /\ prefix = <<>> THEN reversed(into_branch(bound))
                     ELSE into_branch(bound),
          direction |-> Some(into_branch(bound))]

\* the loop of dict_find_bound and dict_find_bound_owned: the key, the leaf
\* and the cell and branch it was reached from
RECURSIVE FindBoundLoop(_, _, _, _, _, _, _)
FindBoundLoop(data, prev, key_bit_len, key, bound, signed, direction) ==
    LET prefix == read_label(data, key_bit_len)
        k == key \o data.label
        remaining == key_bit_len - Len(data.label)
        next == update_direction(bound, data.label, signed, direction)
    IN  IF ~prefix.ok THEN Err(prefix.err)
        ELSE IF remaining = 0 THEN Ok([key |-> k, data |-> data, prev |-> prev])
        ELSE IF Len(data.refs) < 2 THEN Err("CellUnderflow")
        ELSE FindBoundLoop(data.refs[next.branch + 1], Some(<<data, next.branch>>),
                           remaining - 1, k \o <<next.branch>>, bound, signed,
                           next.direction)

\* a variant of dict_find_bound that gives up without an error at a node it
\* cannot read
RECURSIVE SkippingLoop(_, _, _, _, _, _)
SkippingLoop(data, key_bit_len, key, bound, signed, direction) ==
    LET k == key \o data.label
        remaining == key_bit_len - Len(data.label)
        next == update_direction(bound, data.label, signed, direction)
    IN  IF remaining < 0 \/ (remaining > 0 /\ Len(data.refs) < 2) THEN Ok(None)
        ELSE IF remaining = 0 THEN Ok(Some(Entry(k, data.data)))
        ELSE SkippingLoop(data.refs[next.branch + 1], remaining - 1, k \o <<next.branch>>,
                          bound, signed, next.direction)
BoundSkipping(dict, key_bit_len, bound, signed) ==
    IF dict = None THEN Ok(None)
    ELSE SkippingLoop(dict[1], key_bit_len, <<>>, bound, signed, None)

dict_find_bound(dict, key_bit_len, bound, signed) ==
    IF dict = None THEN Ok(None)
    ELSE LET found == FindBoundLoop(dict[1], None, key_bit_len, <<>>, bound, signed, None)
         IN  IF ~found.ok THEN found
             ELSE Ok(Some(Entry(found.val.key, found.val.data.data)))

\* a variant of dict_find_bound_owned that takes the root for the cell of the leaf
BoundOwnedOfRoot(dict, key_bit_len, bound, signed) ==
    IF dict = None THEN Ok(None)
    ELSE LET found == FindBoundLoop(dict[1], None, key_bit_len, <<>>, bound, signed, None)
         IN  IF ~found.ok THEN found
             ELSE Ok(Some(Entry(found.val.key, dict[1].data)))

\* dict_find_bound_owned: the cell of the leaf is taken again from the cell
\* before it, the range from the slice that was read
dict_find_bound_owned(dict, key_bit_len, bound, signed) ==
    IF dict = None THEN Ok(None)
    ELSE LET found == FindBoundLoop(dict[1], None, key_bit_len, <<>>, bound, signed, None)
             prev == found.val.prev
         IN  IF ~found.ok THEN found
             ELSE IF prev = None THEN Ok(Some(Entry(found.val.key, dict[1].data)))
             ELSE IF Len(prev[1][1].refs) <= prev[1][2] THEN Err("CellUnderflow")
             ELSE Ok(Some(Entry(found.val.key, prev[1][1].refs[prev[1][2] + 1].data)))

-----------------------------------------------------------------------------
(* The callers of the dictionary *)

DictKeys == {1, 2, 3, 6, 8}
FindKeys == 0 .. 15
DictEntries == { <<FALSE, 1>>, <<TRUE, 2>> }

\* unvalidated trees as AugDict::load_from takes them from a slice: the tree
\* of a well-formed dictionary with the data of one node cut off
CutSecond(d) == [d EXCEPT !.root[1].refs[2].data = <<>>]

\* keys 1 and 8; the leaf under key 8 has no data at all
Truncated ==
    CutSecond(set_ext(set_ext(AugDictNew, 1, FALSE, 1).self, 8, FALSE, 1).self)

\* keys 1, 8 and 12; the fork over keys 8 and 12 stores no extra
NoForkExtra ==
    CutSecond(set_ext(set_ext(set_ext(AugDictNew, 1, TRUE, 2).self,
                              8, FALSE, 1).self, 12, FALSE, 1).self)

LoadSamples == {Truncated, NoForkExtra}

NoCall ==
    [op |-> "new", key |-> 0, extra |-> FALSE, value |-> 0, towards |-> "Min",
     inclusive |-> FALSE, signed |-> FALSE, before |-> AugDictNew, ret |-> Ok(TRUE)]

self == [root |-> dict_root, extra |-> dict_extra]

DictCall(op, key, extra, value, out) ==
    LET done == out
    IN  /\ dict_root' = done.self.root
        /\ dict_extra' = done.self.extra
        /\ dcall' = [NoCall EXCEPT !.op = op, !.key = key, !.extra = extra, !.value = value,
                                   !.before = self, !.ret = done.ret]
        /\ UNCHANGED <<trusted, broken, otherThanDict>>

Set ==
    \E key \in DictKeys, e \in DictEntries :
        DictCall("set", key, e[1], e[2], set_ext(self, key, e[1], e[2]))

Replace ==
    \E key \in DictKeys, e \in DictEntries :
        DictCall("replace", key, e[1], e[2], replace_ext(self, key, e[1], e[2]))

Add ==
    \E key \in DictKeys, e \in DictEntries :
        DictCall("add", key, e[1], e[2], add_ext(self, key, e[1], e[2]))

Remove == \E key \in DictKeys : DictCall("remove", key, FALSE, 0, remove(self, key))

LoadFrom ==
    /\ dcall.op = "new"
    /\ \E sample \in LoadSamples :
          /\ dict_root' = sample.root
          /\ dict_extra' = sample.extra
    /\ trusted' = FALSE
    /\ UNCHANGED broken
    /\ dcall' = [NoCall EXCEPT !.op = "load_from"]
    /\ UNCHANGED otherThanDict

DictIdle ==
    /\ dict_root = AugDictNew.root
    /\ dict_extra = AugDictNew.extra
    /\ trusted = TRUE
    /\ broken = None
    /\ dcall = NoCall

BuilderIdle ==
    /\ overflow_checks = TRUE
    /\ builder = new
    /\ fault = "none"
    /\ call = [op |-> "new", bits |-> 0, value |-> <<>>, before |-> new, ret |-> TRUE]
    /\ built = NoCell
    /\ nops = 0

DictNext == Set \/ Replace \/ Add \/ Remove \/ LoadFrom

\* the dictionaries the queries are made on: every subset of FindDictKeys,
\* set in ascending order as tests::dict_remove fills its dictionary
FindDictKeys == {0, 1, 2, 3, 6, 7, 8, 15}

RECURSIVE Filled(_, _)
Filled(keys, i) ==
    IF i < 0 THEN AugDictNew
    ELSE IF i \in keys
    THEN set_ext(Filled(keys, i - 1), i, i % 2 = 0, i % Pow2(ValueBits)).self
    ELSE Filled(keys, i - 1)

\* the dictionaries that are damaged after they were filled
BrokenKeys == {1, 2, 8, 15}
Kinds == {"one_ref", "no_refs", "long", "longer", "short"}

RECURSIVE NodesOf(_)
NodesOf(cell) ==
    {<<>>} \cup UNION {{<<i - 1>> \o at : at \in NodesOf(cell.refs[i])} : i \in DOMAIN cell.refs}

RECURSIVE NodeAt(_, _)
NodeAt(cell, at) == IF at = <<>> THEN cell ELSE NodeAt(cell.refs[at[1] + 1], Tail(at))

\* a cell that a well-formed dictionary cannot hold: a fork with one reference
\* or none, a label longer than the key has bits, a label one bit too long or
\* one bit too short
BreakNode(cell, kind) ==
    CASE kind = "one_ref" -> [cell EXCEPT !.refs = SubSeq(@, 1, 1)]
      [] kind = "no_refs" -> [cell EXCEPT !.refs = <<>>]
      [] kind = "long" -> [cell EXCEPT !.label = @ \o Zeros(KeyBits + 1)]
      [] kind = "longer" -> [cell EXCEPT !.label = @ \o <<0>>]
      [] OTHER -> [cell EXCEPT !.label = SubSeq(@, 1, Len(@) - 1)]

RECURSIVE Break(_, _, _)
Break(cell, at, kind) ==
    IF at = <<>> THEN BreakNode(cell, kind)
    ELSE [cell EXCEPT !.refs[at[1] + 1] = Break(@, Tail(at), kind)]

\* the damage that makes the node itself malformed and leaves the others as
\* they are: a label one bit off is that of a leaf
Applies(cell, kind) ==
    CASE kind \in {"one_ref", "no_refs"} -> cell.refs # <<>>
      [] kind = "longer" -> cell.refs = <<>>
      [] kind = "short" -> cell.refs = <<>> /\ cell.label # <<>>
      [] OTHER -> TRUE

FindInit ==
    /\ \/ /\ \E keys \in SUBSET FindDictKeys :
                /\ dict_root = Filled(keys, 15).root
                /\ dict_extra = Filled(keys, 15).extra
          /\ trusted = TRUE
          /\ broken = None
       \/ /\ \E keys \in SUBSET BrokenKeys \ {{}} :
                LET d == Filled(keys, 15)
                IN  \E at \in NodesOf(d.root[1]), kind \in Kinds :
                        /\ Applies(NodeAt(d.root[1], at), kind)
                        /\ dict_root = Some(Break(d.root[1], at, kind))
                        /\ dict_extra = d.extra
                        /\ broken = Some([root |-> d.root, at |-> at, kind |-> kind])
          /\ trusted = FALSE
    /\ dcall = NoCall

Found(op, key, towards, inclusive, signed, ret) ==
    /\ dcall.op = "new"
    /\ dcall' = [NoCall EXCEPT !.op = op, !.key = key, !.towards = towards,
                               !.inclusive = inclusive, !.signed = signed,
                               !.before = self, !.ret = ret]
    /\ UNCHANGED <<dict_root, dict_extra, trusted, broken, otherThanDict>>

\* each query is made on the dictionary as it was filled
FindOwned ==
    \E key \in FindKeys, towards \in {"Min", "Max"}, inclusive \in BOOLEAN, signed \in BOOLEAN :
        Found("find", key, towards, inclusive, signed,
              dict_find_owned(dict_root, KeyBits, StoreKey(key), towards, inclusive, signed))

\* a key that is one bit short of key_bit_len
FindOwnedShortKey ==
    \E key \in FindKeys, towards \in {"Min", "Max"}, inclusive \in BOOLEAN, signed \in BOOLEAN :
        Found("find_short_key", key, towards, inclusive, signed,
              dict_find_owned(dict_root, KeyBits, Tail(StoreKey(key)), towards, inclusive,
                              signed))

FindBound ==
    \E bound \in {"Min", "Max"}, signed \in BOOLEAN :
        Found("find_bound", 0, bound, FALSE, signed,
              dict_find_bound(dict_root, KeyBits, bound, signed))

FindBoundOwned ==
    \E bound \in {"Min", "Max"}, signed \in BOOLEAN :
        Found("find_bound_owned", 0, bound, FALSE, signed,
              dict_find_bound_owned(dict_root, KeyBits, bound, signed))

FindNext == FindOwned \/ FindOwnedShortKey \/ FindBound \/ FindBoundOwned

-----------------------------------------------------------------------------
(* The cells of a dictionary and its clone                                  *)
(* Cells are immutable and shared by reference: a Cell is a number into     *)
(* `cells`, and Clone for AugDict copies the root's number and the extra.   *)

\* the tree under cell number a
RECURSIVE TreeAt(_, _)
TreeAt(heap, a) ==
    [label |-> heap[a].label,
     refs |-> [i \in DOMAIN heap[a].refs |-> TreeAt(heap, heap[a].refs[i])],
     data |-> heap[a].data]

RootTree(heap, root) == IF root = None THEN None ELSE Some(TreeAt(heap, root[1]))

\* the cell numbers reachable from a root
RECURSIVE ReachFrom(_, _)
ReachFrom(heap, a) ==
    {a} \cup UNION {ReachFrom(heap, heap[a].refs[i]) : i \in DOMAIN heap[a].refs}

Reach(heap, root) == IF root = None THEN {} ELSE ReachFrom(heap, root[1])

Placed(heap, a) == [cells |-> heap, at |-> a]

\* the update of the trie leaves a new root: the cells of the old root that
\* are unchanged are reused by reference, every other cell is a new one
RECURSIVE StoreTree(_, _, _)
StoreTree(heap, tree, old) ==
    LET same == {a \in Reach(heap, old) : TreeAt(heap, a) = tree}
        cell(refs) == [label |-> tree.label, refs |-> refs, data |-> tree.data]
    IN  IF same # {} THEN Placed(heap, CHOOSE a \in same : \A b \in same : a <= b)
        ELSE IF tree.refs = <<>> THEN Placed(Append(heap, cell(<<>>)), Len(heap) + 1)
        ELSE Bind(StoreTree(heap, tree.refs[1], old), LAMBDA left :
             Bind(StoreTree(left.cells, tree.refs[2], old), LAMBDA right :
                 Placed(Append(right.cells, cell(<<left.at, right.at>>)),
                        Len(right.cells) + 1)))

\* a variant of SetRoot that rebuilds the root in the old root's cell
StoreInPlace(heap, tree, old) ==
    IF old = None THEN StoreTree(heap, tree, old)
    ELSE Bind(StoreTree(heap, tree, old), LAMBDA placed :
             Placed([placed.cells EXCEPT ![old[1]] = placed.cells[placed.at]], old[1]))

\* *root = the new root cell, through &mut self.dict.root
SetRoot(heap, tree, old) == StoreTree(heap, tree, old)

\* the dictionary the calls of dict/aug.rs work on
Viewed(heap, d) == [root |-> RootTree(heap, d.root), extra |-> d.extra]

\* what a holder of a dictionary can observe of it
Observed(heap, d) ==
    [root |-> RootTree(heap, d.root), extra |-> d.extra, entries |-> iter(Viewed(heap, d))]

\* <AugDict as Clone>::clone
clone(this) == [root |-> this.root, extra |-> this.extra]

\* the calls on an original whose clone is kept
MaxCloneOps == 3
CloneKeys == {1, 8, 12}

\* the dictionaries the calls start from: the empty one, or one loaded
StartTrees == {AugDictNew, Truncated, NoForkExtra}

Started(d) ==
    IF d.root = None THEN [cells |-> <<>>, orig |-> d]
    ELSE LET placed == StoreTree(<<>>, d.root[1], None)
         IN  [cells |-> placed.cells, orig |-> [root |-> Some(placed.at), extra |-> d.extra]]

CloneInit ==
    /\ \E d \in StartTrees : cells = Started(d).cells /\ orig = Started(d).orig
    /\ cloned = None
    /\ ccall = [op |-> "new", ret |-> Ok(TRUE)]
    /\ cops = 0

CloneIdle ==
    /\ cells = <<>>
    /\ orig = AugDictNew
    /\ cloned = None
    /\ ccall = [op |-> "new", ret |-> Ok(TRUE)]
    /\ cops = 0

\* let copy = dict.clone()
Clone ==
    /\ cloned = None
    /\ cloned' = Some([copy |-> clone(orig), seen |-> Observed(cells, clone(orig)),
                       cells |-> cells])
    /\ ccall' = [op |-> "clone", ret |-> Ok(TRUE)]
    /\ UNCHANGED <<cells, orig, cops, otherThanClone>>

\* one mutating call on the original: the root it leaves is stored into
\* the slot &mut self.dict.root
OrigCall(op, out) ==
    LET done == out
        placed == IF done.self.root = None THEN Placed(cells, 0)
                  ELSE SetRoot(cells, done.self.root[1], orig.root)
    IN  /\ cops < MaxCloneOps
        /\ cells' = placed.cells
        /\ orig' = [root |-> IF done.self.root = None THEN None ELSE Some(placed.at),
                    extra |-> done.self.extra]
        /\ ccall' = [op |-> op, ret |-> done.ret]
        /\ cops' = cops + 1
        /\ UNCHANGED <<cloned, otherThanClone>>

OrigSet ==
    \E key \in CloneKeys, e \in DictEntries :
        OrigCall("set", set_ext(Viewed(cells, orig), key, e[1], e[2]))

OrigReplace ==
    \E key \in CloneKeys, e \in DictEntries :
        OrigCall("replace", replace_ext(Viewed(cells, orig), key, e[1], e[2]))

OrigAdd ==
    \E key \in CloneKeys, e \in DictEntries :
        OrigCall("add", add_ext(Viewed(cells, orig), key, e[1], e[2]))

OrigRemove == \E key \in CloneKeys : OrigCall("remove", remove(Viewed(cells, orig), key))

CloneNext == Clone \/ OrigSet \/ OrigReplace \/ OrigAdd \/ OrigRemove

-----------------------------------------------------------------------------
(* cell/usage_tree.rs                                                       *)
(* The usage tree is [mode, alive, visited]; a UsageCell is a number into   *)
(* usage_cells. `alive` is what Weak::upgrade sees: the UsageTree holds the *)
(* only strong reference to the state.                                      *)

\* the cells that get wrapped: cell c has the references UnderRefs[c]; its
\* representation hash is its number
UnderRefs == << <<2, 3>>, <<3>>, <<>> >>
repr_hash(cell) == cell

\* reference_cloned of the wrapped cell
reference_cloned(cell, index) ==
    IF index < Len(UnderRefs[cell]) THEN Some(UnderRefs[cell][index + 1]) ELSE None

\* UsageTree::new
UsageTreeNew(mode) == [mode |-> mode, alive |-> TRUE, visited |-> {}]

\* a variant of insert that records whatever the context is
InsertAlways(state, cell, ctx) == [state EXCEPT !.visited = @ \cup {repr_hash(cell)}]

\* UsageTreeState::insert
insert(state, cell, ctx) ==
    IF state.mode = ctx THEN [state EXCEPT !.visited = @ \cup {repr_hash(cell)}] ELSE state

\* UsageTreeState::contains
contains(state, hash) == hash \in state.visited

\* usage_tree.upgrade() and the insert under it
InsertIfAlive(state, cell, ctx) == IF state.alive THEN insert(state, cell, ctx) ELSE state

\* the UsageCell that wrap and load_reference make
UsageCell(cell) ==
    [cell |-> cell,
     children |-> <<None, None, None, None>>,
     reference_states |-> <<"INCOMPLETE", "INCOMPLETE", "INCOMPLETE", "INCOMPLETE">>,
     asked |-> <<0, 0, 0, 0>>]

\* what a call leaves: the tree, the usage cells, what it returns
Left3(state, ucells, ret) == [tree |-> state, cells |-> ucells, ret |-> ret]

\* UsageTree::track
track(state, ucells, cell) ==
    Left3(insert(state, cell, "OnLoad"), Append(ucells, UsageCell(cell)), Some(Len(ucells) + 1))

\* <UsageCell as CellImpl>::data
data(state, ucells, w) ==
    Left3(InsertIfAlive(state, ucells[w].cell, "OnDataAccess"), ucells, None)

\* rc::UsageCell::load_reference
rc_load_reference(state, ucells, w, index) ==
    IF index >= 4 THEN Left3(state, ucells, None)
    ELSE IF ucells[w].children[index + 1] # None
    THEN Left3(state, ucells, ucells[w].children[index + 1])
    ELSE LET child == reference_cloned(ucells[w].cell, index)
             asked == [ucells EXCEPT ![w].asked[index + 1] = @ + 1]
         IN  IF child = None THEN Left3(state, asked, None)
             ELSE Left3(InsertIfAlive(state, child[1], "OnLoad"),
                        Append([asked EXCEPT ![w].children[index + 1] = Some(Len(ucells) + 1)],
                               UsageCell(child[1])),
                        Some(Len(ucells) + 1))

\* a Once that lets a caller through while another caller's closure runs
OnceNoWait(once) == IF once = "INCOMPLETE" THEN "closure" ELSE "after"

\* Once::call_once_force on entry: the first caller runs the closure, a
\* caller that finds it running waits, a caller that finds it complete goes on
call_once_force(once) ==
    CASE once = "INCOMPLETE" -> "closure"
      [] once = "RUNNING" -> "waiting"
      [] OTHER -> "after"

\* the closure of sync::UsageCell::load_reference, and the Once completed
\* after it; `updated` is what the closure sets
closure(ucells, w, index) ==
    LET child == reference_cloned(ucells[w].cell, index)
        ran == [ucells EXCEPT ![w].reference_states[index + 1] = "COMPLETE",
                              ![w].asked[index + 1] = @ + 1]
    IN  IF child = None THEN [cells |-> ran, updated |-> FALSE]
        ELSE [cells |-> Append([ran EXCEPT ![w].children[index + 1] =
                                               Some(Len(ucells) + 1)],
                               UsageCell(child[1])),
              updated |-> TRUE]

\* a variant of after_once that never records the child
AfterOnceUnrecorded(state, ucells, w, index, updated) ==
    Left3(state, ucells, ucells[w].children[index + 1])

\* sync::UsageCell::load_reference after it: the insert if the closure ran
\* in this call and left a child, and the child returned
after_once(state, ucells, w, index, updated) ==
    LET child == ucells[w].children[index + 1]
    IN  IF updated /\ child # None
        THEN Left3(InsertIfAlive(state, ucells[child[1]].cell, "OnLoad"), ucells, child)
        ELSE Left3(state, ucells, child)

-----------------------------------------------------------------------------
(* The callers of the usage tree *)

MaxTracks == 2
MaxUsageOps == 3
Threads == {1, 2}
Modes == {"OnLoad", "OnDataAccess"}
Indexes == {0, 1, 4}
TrackedCells == {1, 2}

NoUsageCall ==
    [thread |-> 1, op |-> "new", on |-> 0, index |-> 0, ret |-> None, before |-> {}]

\* the Rc usage cells are not Send: one thread has them all
MayRun(t) == running[t] = None /\ (usage_sync \/ t = 1) /\ uops < MaxUsageOps

Tracks == Cardinality({w \in DOMAIN usage_cells :
                           \A v \in DOMAIN usage_cells, i \in 1..4 :
                               usage_cells[v].children[i] # Some(w)})

Returning(t, op, w, index, out) ==
    /\ usage_tree' = out.tree
    /\ usage_cells' = out.cells
    /\ ucall' = [thread |-> t, op |-> op, on |-> w, index |-> index, ret |-> out.ret,
                 before |-> usage_tree.visited]

Track ==
    \E t \in Threads, cell \in TrackedCells :
        /\ MayRun(t) /\ usage_tree.alive /\ Tracks < MaxTracks
        /\ Returning(t, "track", 0, 0, track(usage_tree, usage_cells, cell))
        /\ uops' = uops + 1
        /\ UNCHANGED <<usage_sync, running, data_read, otherThanUsage>>

Data ==
    \E t \in Threads, w \in DOMAIN usage_cells :
        /\ MayRun(t)
        /\ Returning(t, "data", w, 0, data(usage_tree, usage_cells, w))
        /\ data_read' = IF usage_tree.alive
                        THEN data_read \cup {repr_hash(usage_cells[w].cell)}
                        ELSE data_read
        /\ uops' = uops + 1
        /\ UNCHANGED <<usage_sync, running, otherThanUsage>>

\* reference / reference_cloned on an Rc usage cell
RcReference ==
    \E w \in DOMAIN usage_cells, index \in Indexes, op \in {"reference", "reference_cloned"} :
        /\ ~usage_sync /\ MayRun(1)
        /\ Returning(1, op, w, index, rc_load_reference(usage_tree, usage_cells, w, index))
        /\ uops' = uops + 1
        /\ UNCHANGED <<usage_sync, running, data_read, otherThanUsage>>

\* reference / reference_cloned on an Arc usage cell: the entry into
\* call_once_force; an index of 4 or more returns at once
SyncReference ==
    \E t \in Threads, w \in DOMAIN usage_cells, index \in Indexes,
       op \in {"reference", "reference_cloned"} :
        /\ usage_sync /\ MayRun(t)
        /\ IF index >= 4
           THEN /\ Returning(t, op, w, index, Left3(usage_tree, usage_cells, None))
                /\ UNCHANGED running
           ELSE LET at == call_once_force(usage_cells[w].reference_states[index + 1])
                IN  /\ usage_cells' =
                           IF at = "closure"
                           THEN [usage_cells EXCEPT ![w].reference_states[index + 1] = "RUNNING"]
                           ELSE usage_cells
                    /\ running' = [running EXCEPT ![t] =
                                       Some([op |-> op, on |-> w, index |-> index,
                                             at |-> at, updated |-> FALSE])]
                    /\ UNCHANGED <<usage_tree, ucall>>
        /\ uops' = uops + 1
        /\ UNCHANGED <<usage_sync, data_read, otherThanUsage>>

\* the closure, run by the caller that found the Once new
SyncClosure ==
    \E t \in Threads :
        /\ running[t] # None /\ running[t][1].at = "closure"
        /\ LET r == running[t][1]
               ran == closure(usage_cells, r.on, r.index)
           IN  /\ usage_cells' = ran.cells
               /\ running' = [running EXCEPT ![t] =
                                  Some([r EXCEPT !.at = "after", !.updated = ran.updated])]
        /\ UNCHANGED <<usage_sync, usage_tree, ucall, uops, data_read, otherThanUsage>>

\* the rest of that call, once call_once_force has returned: to the caller
\* that ran the closure, to one that found the Once complete, and to one that
\* waited and now finds it complete
SyncReturn ==
    \E t \in Threads :
        /\ running[t] # None
        /\ LET r == running[t][1]
           IN  /\ \/ r.at = "after"
                  \/ /\ r.at = "waiting"
                     /\ usage_cells[r.on].reference_states[r.index + 1] = "COMPLETE"
               /\ Returning(t, r.op, r.on, r.index,
                            after_once(usage_tree, usage_cells, r.on, r.index, r.updated))
        /\ running' = [running EXCEPT ![t] = None]
        /\ UNCHANGED <<usage_sync, uops, data_read, otherThanUsage>>

\* drop(usage_tree): the usage cells outlive it
DropTree ==
    /\ usage_tree.alive
    /\ usage_tree' = [usage_tree EXCEPT !.alive = FALSE]
    /\ UNCHANGED <<usage_sync, usage_cells, running, ucall, uops, data_read, otherThanUsage>>

UsageInit ==
    /\ usage_sync \in BOOLEAN
    /\ \E mode \in Modes : usage_tree = UsageTreeNew(mode)
    /\ usage_cells = <<>>
    /\ running = [t \in Threads |-> None]
    /\ ucall = NoUsageCall
    /\ uops = 0
    /\ data_read = {}

UsageIdle ==
    /\ usage_sync = FALSE
    /\ usage_tree = UsageTreeNew("OnLoad")
    /\ usage_cells = <<>>
    /\ running = [t \in Threads |-> None]
    /\ ucall = NoUsageCall
    /\ uops = 0
    /\ data_read = {}

UsageNext ==
    Track \/ Data \/ RcReference \/ SyncReference \/ SyncClosure \/ SyncReturn \/ DropTree

-----------------------------------------------------------------------------
(* One thread making the same calls in the two builds of the usage tree *)

\* sync::UsageCell::load_reference as one thread runs it: no other caller is
\* in the Once, so it is never found running
sync_load_reference(state, ucells, w, index) ==
    IF index >= 4 THEN Left3(state, ucells, None)
    ELSE IF call_once_force(ucells[w].reference_states[index + 1]) = "closure"
    THEN LET ran == closure(ucells, w, index)
         IN  after_once(state, ran.cells, w, index, ran.updated)
    ELSE after_once(state, ucells, w, index, FALSE)

MaxTwinOps == 4

NoTwinCall == [op |-> "new", rc |-> None, sync |-> None, n |-> 0]
Side(mode) == [tree |-> UsageTreeNew(mode), cells |-> <<>>]

Twin(op, rc, sync) ==
    /\ twin_call.n < MaxTwinOps
    /\ rc_usage' = [tree |-> rc.tree, cells |-> rc.cells]
    /\ sync_usage' = [tree |-> sync.tree, cells |-> sync.cells]
    /\ twin_call' = [op |-> op, rc |-> rc.ret, sync |-> sync.ret, n |-> twin_call.n + 1]
    /\ UNCHANGED otherThanTwin

TwinTrack ==
    \E cell \in TrackedCells :
        /\ rc_usage.tree.alive /\ sync_usage.tree.alive
        /\ Twin("track", track(rc_usage.tree, rc_usage.cells, cell),
                         track(sync_usage.tree, sync_usage.cells, cell))

TwinData ==
    \E w \in DOMAIN rc_usage.cells \cap DOMAIN sync_usage.cells :
        Twin("data", data(rc_usage.tree, rc_usage.cells, w),
                     data(sync_usage.tree, sync_usage.cells, w))

TwinReference ==
    \E w \in DOMAIN rc_usage.cells \cap DOMAIN sync_usage.cells, index \in Indexes,
       op \in {"reference", "reference_cloned"} :
        Twin(op, rc_load_reference(rc_usage.tree, rc_usage.cells, w, index),
                 sync_load_reference(sync_usage.tree, sync_usage.cells, w, index))

TwinDrop ==
    /\ rc_usage.tree.alive
    /\ rc_usage' = [rc_usage EXCEPT !.tree.alive = FALSE]
    /\ sync_usage' = [sync_usage EXCEPT !.tree.alive = FALSE]
    /\ UNCHANGED <<twin_call, otherThanTwin>>

TwinInit ==
    /\ \E mode \in Modes : rc_usage = Side(mode) /\ sync_usage = Side(mode)
    /\ twin_call = NoTwinCall

TwinIdle ==
    /\ rc_usage = Side("OnLoad") /\ sync_usage = Side("OnLoad")
    /\ twin_call = NoTwinCall

TwinNext == TwinTrack \/ TwinData \/ TwinReference \/ TwinDrop

-----------------------------------------------------------------------------
(* models/message/mod.rs: the layout of a message in its root cell          *)

\* a size is <<bits, refs>>; a StateInit is known by its size
Size(bits, refs) == <<bits, refs>>

MessageLayout(init_to_cell, body_to_cell) ==
    [init_to_cell |-> init_to_cell, body_to_cell |-> body_to_cell]
plain == MessageLayout(FALSE, FALSE)

\* DetailedMessageLayout::compute
DetailedMessageLayout(info_size, init, body_size) ==
    [info_bits |-> info_size[1] + 2 + (IF init # None THEN 1 ELSE 0),
     info_refs |-> info_size[2],
     init_bits |-> IF init # None THEN init[1][1] ELSE 0,
     init_refs |-> IF init # None THEN init[1][2] ELSE 0,
     body_bits |-> body_size[1],
     body_refs |-> body_size[2]]

\* MessageLayout::compute_full_len
compute_full_len(layout, info_size, init, body_size) ==
    LET l == DetailedMessageLayout(info_size, init, body_size)
        with_init == IF layout.init_to_cell
                     THEN Size(l.info_bits, l.info_refs + 1)
                     ELSE Size(l.info_bits + l.init_bits, l.info_refs + l.init_refs)
    IN  IF layout.body_to_cell
        THEN Size(with_init[1], with_init[2] + 1)
        ELSE Size(with_init[1] + l.body_bits, with_init[2] + l.body_refs)

\* MessageLayout::compute: [layout, bits, refs]
compute(info_size, init, body_size) ==
    LET l == DetailedMessageLayout(info_size, init, body_size)
        Chosen(layout, bits, refs) == [layout |-> layout, bits |-> bits, refs |-> refs]
    IN  IF /\ l.info_bits + l.init_bits + l.body_bits <= MAX_BIT_LEN
           /\ l.info_refs + l.init_refs + l.body_refs <= MAX_REF_COUNT
        THEN Chosen(MessageLayout(FALSE, FALSE), l.info_bits + l.init_bits + l.body_bits,
                    l.info_refs + l.init_refs + l.body_refs)
        ELSE IF /\ l.info_bits + l.init_bits <= MAX_BIT_LEN
                /\ l.info_refs + l.init_refs < MAX_REF_COUNT
        THEN Chosen(MessageLayout(FALSE, TRUE), l.info_bits + l.init_bits,
                    l.info_refs + l.init_refs)
        ELSE IF /\ l.info_bits + l.body_bits <= MAX_BIT_LEN
                /\ l.info_refs + l.body_refs < MAX_REF_COUNT
        THEN Chosen(MessageLayout(TRUE, FALSE), l.info_bits + l.body_bits,
                    l.info_refs + l.body_refs)
        ELSE Chosen(MessageLayout(TRUE, TRUE), l.info_bits, l.info_refs + 2)

\* the builder the message is stored into, by what it holds: [bit_len, refs]
Holding(bit_len, refs) == [bit_len |-> bit_len, refs |-> refs]
has_capacity(b, bits, refs) ==
    b.bit_len + bits <= MAX_BIT_LEN /\ b.refs + refs <= MAX_REF_COUNT

\* the appends of one store_into, in order, each a size
StoreParts(msg, layout) ==
    <<msg.info_size>>
    \o (IF msg.init = None THEN <<Size(1, 0)>>
        ELSE <<Size(1, 0), Size(1, 0),
               IF layout.init_to_cell THEN Size(0, 1) ELSE msg.init[1]>>)
    \o <<Size(1, 0), IF layout.body_to_cell THEN Size(0, 1) ELSE msg.body_size>>

\* the appends made one after another; the first that does not fit ends them
RECURSIVE StoreEach(_, _)
StoreEach(b, parts) ==
    IF parts = <<>> THEN [ret |-> Ok(<<>>), root |-> b]
    ELSE IF ~has_capacity(b, Head(parts)[1], Head(parts)[2])
    THEN [ret |-> Err("CellOverflow"), root |-> b]
    ELSE StoreEach(Holding(b.bit_len + Head(parts)[1], b.refs + Head(parts)[2]), Tail(parts))

\* impl Store for BaseMessage: [ret, root, layout, bits, refs]
message_store_into(msg, b) ==
    LET chosen == IF msg.layout # None
                  THEN LET len == compute_full_len(msg.layout[1], msg.info_size, msg.init,
                                                   msg.body_size)
                       IN  [layout |-> msg.layout[1], bits |-> len[1], refs |-> len[2]]
                  ELSE compute(msg.info_size, msg.init, msg.body_size)
        checked == has_capacity(b, chosen.bits, chosen.refs)
        out == IF checked THEN StoreEach(b, StoreParts(msg, chosen.layout))
               ELSE [ret |-> Err("CellOverflow"), root |-> b]
    IN  [ret |-> out.ret, root |-> out.root, checked |-> checked, layout |-> chosen.layout,
         bits |-> chosen.bits, refs |-> chosen.refs]

(* The messages and the calls on them *)

InfoSizes == {Size(bits, refs) : bits \in {100, 1000, 1017}, refs \in {0, 1}}
\* StateInit::bit_len and reference_count (models/account/mod.rs) without
\* split_depth: 5 bits, 7 with the special flags; a reference each for code,
\* data and libraries
StateInits == {Size(bits, refs) : bits \in {5, 7}, refs \in {0, 1, 3}}
BodySizes == {Size(bits, refs) : bits \in {0, 500, 1023}, refs \in {0, 2, 4}}
Layouts == {MessageLayout(i, b) : i, b \in BOOLEAN}
Roots == {Holding(0, 0), Holding(0, 1), Holding(8, 3)}
NoMessageCall == [op |-> "none"]

\* MessageLayout::compute(info_size, init, body_size)
Compute ==
    /\ mcall' = [op |-> "compute",
                 ret |-> compute(message.info_size, message.init, message.body_size)]
    /\ UNCHANGED <<message, otherThanMessage>>

\* layout.compute_full_len(info_size, init, body_size)
ComputeFullLen ==
    \E layout \in Layouts :
        /\ mcall' = [op |-> "compute_full_len", layout |-> layout,
                     ret |-> compute_full_len(layout, message.info_size, message.init,
                                              message.body_size)]
        /\ UNCHANGED <<message, otherThanMessage>>

\* message.store_into(builder, finalizer)
StoreInto ==
    \E b \in Roots :
        /\ mcall' = [op |-> "store_into", before |-> b, ret |-> message_store_into(message, b)]
        /\ UNCHANGED <<message, otherThanMessage>>

MessageInit ==
    /\ \E info_size \in InfoSizes, init \in {None} \cup {Some(i) : i \in StateInits},
          body_size \in BodySizes, layout \in {None} \cup {Some(l) : l \in Layouts} :
          message = [info_size |-> info_size, init |-> init, body_size |-> body_size,
                     layout |-> layout]
    /\ mcall = NoMessageCall

MessageIdle ==
    /\ message = [info_size |-> Size(100, 0), init |-> None, body_size |-> Size(0, 0),
                  layout |-> None]
    /\ mcall = NoMessageCall

MessageNext == Compute \/ ComputeFullLen \/ StoreInto

-----------------------------------------------------------------------------
(* models/shard/mod.rs: the codec of ShardStateUnsplit                      *)

\* TAG_V1 = 0x9023afe2, TAG_V2 = 0x9023aeee
TAG_V1 == FromBytes(<<144, 35, 175, 226>>)
TAG_V2 == FromBytes(<<144, 35, 174, 238>>)

\* one append of store_into, and the appends of the field types
U16(v) == [op |-> "u16", v |-> v]
U32(v) == [op |-> "u32", v |-> v]
U64(v) == [op |-> "u64", v |-> v]
Bit(v) == [op |-> "bit", v |-> v]
Ref(v) == [op |-> "ref", v |-> v]
Token(v) == [op |-> "u8", v |-> v]

\* ShardIdent, CurrencyCollection, ShardBlockRefs: one byte each here;
\* BlockRef: two bytes
StoreShardIdent(ident) == <<Token(ident.workchain % 256)>>
StoreCurrency(cc) == <<Token(cc)>>
StoreShardBlockRefs(refs) == <<Token(refs)>>
StoreBlockRef(ref) == <<U16(ToBits(ref, 16))>>
is_masterchain(ident) == ident.workchain = -1

\* Dict<K, V> and Option<Lazy<T>>: a bit, then the cell if there is one
StoreOptionCell(o) == IF o = None THEN <<Bit(FALSE)>> ELSE <<Bit(TRUE), Ref(o[1])>>
\* Option<BlockRef>: a bit, then the value if there is one
StoreOptionBlockRef(o) == IF o = None THEN <<Bit(FALSE)>> ELSE <<Bit(TRUE)>> \o StoreBlockRef(o[1])

\* CellBuilder::store_bit
store_bit(b, value) == IF value THEN store_bit_true(b) ELSE store_bit_zero(b)

StoreOne(b, w, oc) ==
    CASE w.op = "u8" -> store_u8(b, w.v, oc)
      [] w.op = "u16" -> store_u16(b, w.v, oc)
      [] w.op = "u32" -> store_u32(b, w.v, oc)
      [] w.op = "u64" -> store_u64(b, w.v, oc)
      [] w.op = "bit" -> store_bit(b, w.v)
      [] w.op = "ref" -> store_reference(b, w.v)

\* the appends one after the other, each under `ok!`
RECURSIVE StoreAll(_, _, _)
StoreAll(b, writes, oc) ==
    IF writes = <<>> THEN Ok(b)
    ELSE Bind(StoreOne(b, writes[1], oc),
              LAMBDA out : IF out.fault # "none" \/ ~out.ret THEN Err("CellOverflow")
                           ELSE StoreAll(out.self, Tail(writes), oc))

\* CellContext::finalize_cell on what build_ext hands it
Finalize(partial) ==
    [level_mask |-> partial.children_mask, stats |-> partial.stats,
     bit_len |-> partial.bit_len, data |-> partial.data, references |-> partial.references]

\* the cell of the fields that do not fit the first one
ChildWrites(state, feats) ==
    << U64(state.overload_history), U64(state.underload_history) >>
    \o StoreCurrency(state.total_balance)
    \o StoreCurrency(state.total_validator_fees)
    \o StoreOptionCell(state.libraries)
    \o StoreOptionBlockRef(state.master_ref)
    \o (IF "tycho" \in feats THEN StoreOptionCell(state.externals_processed_upto) ELSE <<>>)

\* the appends up to the reference to the child cell
MainWrites(state, child_cell, feats) ==
    << U32(IF "venom" \in feats THEN TAG_V2 ELSE TAG_V1),
       U32(state.global_id) >>
    \o StoreShardIdent(state.shard_ident)
    \o << U32(state.seqno), U32(state.vert_seqno), U32(state.gen_utime),
          U64(state.gen_lt), U32(state.min_ref_mc_seqno),
          Ref(state.out_msg_queue_info), Bit(state.before_split),
          Ref(state.accounts), Ref(child_cell) >>

\* the appends after it: custom, or with venom either custom or shard_block_refs
LastWrites(state, feats) ==
    IF "venom" \notin feats THEN Ok(StoreOptionCell(state.custom))
    ELSE IF state.custom # None /\ state.shard_block_refs # None THEN Err("InvalidData")
    ELSE IF state.shard_block_refs # None
    THEN Ok(StoreShardBlockRefs(state.shard_block_refs[1]))
    ELSE Ok(StoreOptionCell(state.custom))

\* <ShardStateUnsplit as Store>::store_into
shard_store_into(state, b, feats, oc) ==
    Bind(StoreAll(new, ChildWrites(state, feats), oc), LAMBDA child :
        IF ~child.ok THEN child
        ELSE Bind(StoreAll(b, MainWrites(state, Finalize(build_ext(child.val)), feats), oc),
                  LAMBDA main :
                      IF ~main.ok THEN main
                      ELSE IF ~LastWrites(state, feats).ok THEN LastWrites(state, feats)
                      ELSE StoreAll(main.val, LastWrites(state, feats).val, oc)))

\* CellBuilder::build_from
build_from(state, feats, oc) ==
    LET b == shard_store_into(state, new, feats, oc)
    IN  IF b.ok THEN Ok(Finalize(build_ext(b.val))) ELSE Err(b.err)

\* Cell::as_slice: the data bits and the references still to read
as_slice(cell) ==
    [bits |-> SubSeq(FromBytes(cell.data), 1, cell.bit_len), refs |-> cell.references]

Read(val, slice) == [ok |-> TRUE, val |-> val, slice |-> slice, err |-> ""]
NoRead(slice, e) == [ok |-> FALSE, val |-> <<>>, slice |-> slice, err |-> e]

\* CellSlice::load_bit / load_u8 / .. / load_u64
load_bits(slice, n) ==
    IF Len(slice.bits) < n THEN NoRead(slice, "CellUnderflow")
    ELSE Read(SubSeq(slice.bits, 1, n),
              [slice EXCEPT !.bits = SubSeq(slice.bits, n + 1, Len(slice.bits))])

\* CellSlice::load_reference_cloned
load_reference(slice) ==
    IF slice.refs = <<>> THEN NoRead(slice, "CellUnderflow")
    ELSE Read(slice.refs[1], [slice EXCEPT !.refs = Tail(slice.refs)])

\* the loads of the field types
LoadOne(slice, kind) ==
    LET flag == load_bits(slice, 1)
        byte == load_bits(slice, 8)
        cell == load_reference(flag.slice)
        ref == load_bits(flag.slice, 16)
    IN  CASE kind = "u16" -> load_bits(slice, 16)
          [] kind = "u32" -> load_bits(slice, 32)
          [] kind = "u64" -> load_bits(slice, 64)
          [] kind = "bit" -> IF flag.ok THEN Read(flag.val = <<1>>, flag.slice) ELSE flag
          [] kind = "ref" -> load_reference(slice)
          [] kind = "ShardIdent" ->
                IF ~byte.ok THEN byte
                ELSE Read([workchain |-> IF byte.val[1] = 1 THEN BitsToInt(byte.val) - 256
                                         ELSE BitsToInt(byte.val)], byte.slice)
          [] kind \in {"CurrencyCollection", "ShardBlockRefs"} ->
                IF byte.ok THEN Read(BitsToInt(byte.val), byte.slice) ELSE byte
          [] kind = "OptionCell" ->
                IF ~flag.ok THEN flag
                ELSE IF flag.val = <<0>> THEN Read(None, flag.slice)
                ELSE IF cell.ok THEN Read(Some(cell.val), cell.slice) ELSE cell
          [] kind = "OptionBlockRef" ->
                IF ~flag.ok THEN flag
                ELSE IF flag.val = <<0>> THEN Read(None, flag.slice)
                ELSE IF ref.ok THEN Read(Some(BitsToInt(ref.val)), ref.slice) ELSE ref

\* the loads one after the other, each under `ok!`: the values in a row
RECURSIVE LoadAll(_, _)
LoadAll(slice, kinds) ==
    IF kinds = <<>> THEN Read(<<>>, slice)
    ELSE Bind(LoadOne(slice, kinds[1]), LAMBDA first :
            IF ~first.ok THEN first
            ELSE Bind(LoadAll(first.slice, Tail(kinds)), LAMBDA rest :
                    IF ~rest.ok THEN rest
                    ELSE Read(<<first.val>> \o rest.val, rest.slice)))

\* the fields of the struct under the features of the build
WithFeatures(state, venom, tycho, feats) ==
    CASE feats = {} -> state
      [] feats = {"venom"} -> state @@ venom
      [] feats = {"tycho"} -> state @@ tycho
      [] feats = {"venom", "tycho"} -> state @@ venom @@ tycho

\* the fields read from the first cell, up to before_split
HeadKinds(feats, fast_finality) ==
    << "u32", "ShardIdent", "u32", "u32", "u32" >>
    \o (IF "venom" \in feats /\ fast_finality THEN <<"u16">> ELSE <<>>)
    \o << "u64", "u32", "bit" >>

\* the fields read from the child cell
ChildKinds(feats) ==
    << "u64", "u64", "CurrencyCollection", "CurrencyCollection", "OptionCell",
       "OptionBlockRef" >>
    \o (IF "tycho" \in feats THEN <<"OptionCell">> ELSE <<>>)

\* custom: not read from a venom state off the masterchain
LoadCustom(slice, shard_ident, feats) ==
    IF "venom" \in feats /\ ~is_masterchain(shard_ident) THEN Read(None, slice)
    ELSE LoadOne(slice, "OptionCell")

\* shard_block_refs (venom): read from a state off the masterchain
LoadShardBlockRefs(slice, shard_ident, feats) ==
    IF "venom" \notin feats \/ is_masterchain(shard_ident) THEN Read(None, slice)
    ELSE Bind(LoadOne(slice, "ShardBlockRefs"),
              LAMBDA r : IF r.ok THEN Read(Some(r.val), r.slice) ELSE r)

\* the struct of the values read
Loaded(refs, head, child, custom, shard_block_refs, ms, feats) ==
    WithFeatures(
        [global_id |-> head[1],
         shard_ident |-> head[2],
         seqno |-> head[3],
         vert_seqno |-> head[4],
         gen_utime |-> head[5],
         gen_lt |-> head[6 + ms],
         min_ref_mc_seqno |-> head[7 + ms],
         out_msg_queue_info |-> refs[1],
         before_split |-> head[8 + ms],
         accounts |-> refs[2],
         overload_history |-> child[1],
         underload_history |-> child[2],
         total_balance |-> child[3],
         total_validator_fees |-> child[4],
         libraries |-> child[5],
         master_ref |-> child[6],
         custom |-> custom],
        [gen_utime_ms |-> IF ms = 1 THEN head[6] ELSE Zeros(16),
         shard_block_refs |-> shard_block_refs],
        [externals_processed_upto |-> child[Len(child)]],
        feats)

\* <ShardStateUnsplit as Load>::load_from
shard_load_from(slice0, feats) ==
    Bind(LoadOne(slice0, "u32"), LAMBDA tag :
    IF ~tag.ok THEN Err(tag.err)
    ELSE IF ~(tag.val = TAG_V1 \/ ("venom" \in feats /\ tag.val = TAG_V2)) THEN Err("InvalidTag")
    ELSE Bind(LoadAll(tag.slice, <<"ref", "ref", "ref">>), LAMBDA refs :
    IF ~refs.ok THEN Err(refs.err)
    ELSE Bind(LoadAll(refs.slice, HeadKinds(feats, tag.val = TAG_V2)), LAMBDA head :
    IF ~head.ok THEN Err(head.err)
    ELSE Bind(LoadAll(as_slice(refs.val[3]), ChildKinds(feats)), LAMBDA child :
    IF ~child.ok THEN Err(child.err)
    ELSE Bind(LoadCustom(head.slice, head.val[2], feats), LAMBDA custom :
    IF ~custom.ok THEN Err(custom.err)
    ELSE Bind(LoadShardBlockRefs(custom.slice, head.val[2], feats), LAMBDA shard_block_refs :
    IF ~shard_block_refs.ok THEN Err(shard_block_refs.err)
    ELSE Ok(Loaded(refs.val, head.val, child.val, custom.val, shard_block_refs.val,
                   IF "venom" \in feats /\ tag.val = TAG_V2 THEN 1 ELSE 0, feats))))))))

-----------------------------------------------------------------------------
(* The callers of the codec *)

MasterchainIdent == [workchain |-> -1]
BasechainIdent == [workchain |-> 0]

\* the states the model stores: every field with a value of its own, the
\* fields of the features drawn with the others
ShardStates(feats) ==
    { WithFeatures(
        [global_id |-> RepBytes(id, 4),
         shard_ident |-> ident,
         seqno |-> RepBytes(<<0, 0, 0, 7>>, 4),
         vert_seqno |-> RepBytes(<<0, 0, 0, 1>>, 4),
         gen_utime |-> RepBytes(<<101, 68, 200, 16>>, 4),
         gen_lt |-> RepBytes(lt, 8),
         min_ref_mc_seqno |-> RepBytes(<<0, 0, 0, 5>>, 4),
         out_msg_queue_info |-> Children[1],
         before_split |-> before_split,
         accounts |-> Children[2],
         overload_history |-> RepBytes(<<128>>, 8),
         underload_history |-> RepBytes(<<1>>, 8),
         total_balance |-> 200,
         total_validator_fees |-> 3,
         libraries |-> Some(Children[3]),
         master_ref |-> master_ref,
         custom |-> custom],
        [gen_utime_ms |-> ToBits(ms, 16), shard_block_refs |-> block_refs],
        [externals_processed_upto |-> upto],
        feats) :
      id \in {<<0>>, <<255>>},
      ident \in {MasterchainIdent, BasechainIdent},
      lt \in {<<0, 0, 0, 0, 0, 0, 1, 44>>},
      before_split \in BOOLEAN,
      master_ref \in {None, Some(4660)},
      custom \in {None, Some(Children[5])},
      ms \in {0, 999},
      block_refs \in {None, Some(77)},
      upto \in {None, Some(Children[4])} }

StoreState ==
    /\ stored = None
    /\ \E state \in ShardStates(features) :
          /\ shard_state' = Some(state)
          /\ stored' = Some(build_from(state, features, overflow_checks))
    /\ UNCHANGED <<features, loaded, otherThanShard>>

LoadState ==
    /\ stored # None /\ stored[1].ok /\ loaded = None
    /\ loaded' = Some(shard_load_from(as_slice(stored[1].val), features))
    /\ UNCHANGED <<features, shard_state, stored, otherThanShard>>

ShardIdle ==
    /\ features = {}
    /\ shard_state = None
    /\ stored = None
    /\ loaded = None

ShardInit ==
    /\ features \in SUBSET {"venom", "tycho"}
    /\ shard_state = None
    /\ stored = None
    /\ loaded = None

ShardNext == StoreState \/ LoadState

-----------------------------------------------------------------------------
(* The specifications *)

\* the builder and its caller
Init == BuilderInit /\ DictIdle /\ ShardIdle /\ CloneIdle /\ UsageIdle /\ TwinIdle /\ MessageIdle
Next == BuilderNext
Spec == Init /\ [][Next]_vars

\* the dictionary and its caller
DictInit == BuilderIdle /\ DictIdle /\ ShardIdle /\ CloneIdle /\ UsageIdle /\ TwinIdle /\ MessageIdle
DictSpec == DictInit /\ [][DictNext]_vars

\* the queries on a filled dictionary
FindSpecInit == BuilderIdle /\ FindInit /\ ShardIdle /\ CloneIdle /\ UsageIdle /\ TwinIdle /\ MessageIdle
FindSpec == FindSpecInit /\ [][FindNext]_vars

\* the codec of the shard state and its caller
ShardSpecInit == BuilderIdle /\ DictIdle /\ ShardInit /\ CloneIdle /\ UsageIdle /\ TwinIdle /\ MessageIdle
ShardSpec == ShardSpecInit /\ [][ShardNext]_vars

\* a dictionary, its clone, and the calls on the original
CloneSpecInit == BuilderIdle /\ DictIdle /\ ShardIdle /\ CloneInit /\ UsageIdle /\ TwinIdle /\ MessageIdle
CloneSpec == CloneSpecInit /\ [][CloneNext]_vars

\* the usage tree, the usage cells and the threads that read them
UsageSpecInit == BuilderIdle /\ DictIdle /\ ShardIdle /\ CloneIdle /\ UsageInit /\ TwinIdle /\ MessageIdle
UsageSpec == UsageSpecInit /\ [][UsageNext]_vars

\* one thread making the same calls on the Rc and on the Arc usage cells
TwinSpecInit == BuilderIdle /\ DictIdle /\ ShardIdle /\ CloneIdle /\ UsageIdle /\ TwinInit /\ MessageIdle
TwinSpec == TwinSpecInit /\ [][TwinNext]_vars

\* a message, the layout computed for it and its serialization
MessageSpecInit ==
    BuilderIdle /\ DictIdle /\ ShardIdle /\ CloneIdle /\ UsageIdle /\ TwinIdle /\ MessageInit
MessageSpec == MessageSpecInit /\ [][MessageNext]_vars

-----------------------------------------------------------------------------
(* Claims about the builder *)

AppendOps ==
    {"store_zeroes", "store_bit_zero", "store_bit_true", "store_u8", "store_u16",
     "store_u32", "store_u64", "store_u128", "store_u256", "store_small_uint",
     "store_uint"}

\* C1: a builder holding b bits accepts an append of n bits if and only if
\* b + n <= 1023, and store_reference succeeds if and only if fewer than 4
\* references are already stored.
C1_CapacityIff ==
    /\ (call.op \in AppendOps /\ fault = "none") =>
          (call.ret <=> call.before.bit_len + call.bits <= MAX_BIT_LEN)
    /\ (call.op = "store_reference") =>
          (call.ret <=> Len(call.before.references) < MAX_REF_COUNT)

\* the same, of the calls whose b + n fits the 16 bits of bit_len
CapacityIffBelowWrap ==
    (call.op \in AppendOps => call.before.bit_len + call.bits < U16Mod) => C1_CapacityIff

\* the data bits of a builder, and the low n bits of a u64 as n bits
\* (zero-extended on the left when n > 64)
DataBit(b, i) == (b.data[((i - 1) \div 8) + 1] \div Pow2(7 - ((i - 1) % 8))) % 2
DataBits(b) == Strict([i \in 1..(8 * Len(b.data)) |-> DataBit(b, i)])
LowBits(value, n) == IF n <= 64 THEN SubSeq(value, 64 - n + 1, 64) ELSE Zeros(n - 64) \o value

Appended(old, now, bits) ==
    /\ now.bit_len = old.bit_len + Len(bits)
    /\ SubSeq(DataBits(now), 1, old.bit_len) = SubSeq(DataBits(old), 1, old.bit_len)
    /\ SubSeq(DataBits(now), old.bit_len + 1, old.bit_len + Len(bits)) = bits
    /\ now.level_mask = old.level_mask
    /\ now.references = old.references

\* C12: a successful store_uint(value, bits) appends exactly `bits` bits, the
\* big-endian low `bits` bits of value (zero-extended on the left when
\* bits > 64), increases bit_len by `bits` and leaves every stored bit as
\* it was; store_uint(_, 0) changes nothing and returns true.
C12_StoreUintAppends ==
    (call.op = "store_uint" /\ fault = "none") =>
        /\ call.bits = 0 => call.ret /\ builder = call.before
        /\ (call.bits > 0 /\ call.ret) =>
               Appended(call.before, builder, LowBits(call.value, call.bits))

\* the same for the calls whose bit count does not wrap the u16 sum
StoreUintAppendsBelowWrap ==
    (call.op = "store_uint" /\ call.before.bit_len + call.bits < U16Mod)
        => C12_StoreUintAppends

\* C13: an append that is refused (returns false) leaves the builder exactly
\* as it was: bit_len, every data byte, the level-mask override and the
\* reference list are unchanged, so whatever is appended or built next is
\* what it would have been without the refused call.
C13_RefusedKeeps ==
    (call.op \in AppendOps \cup {"store_reference"} /\ fault = "none" /\ ~call.ret)
        => builder = call.before

\* an append of bits was refused on a builder that holds data
C13_Witness ==
    /\ call.op \in AppendOps /\ fault = "none" /\ ~call.ret
    /\ call.before.bit_len > 0
    /\ \E q \in 1..DataLen : call.before.data[q] # 0

\* C14: build_ext passes ceil(bit_len / 8) data bytes to the finalizer; when
\* bit_len is not a multiple of 8 the last byte holds the bit_len % 8 stored
\* data bits, then a single 1 bit, then only 0 bits; when it is a multiple
\* of 8 no tag is added and the stored bytes are passed unchanged.
C14_CompletionTag ==
    (call.op = "build_ext" /\ built # NoCell) =>
        LET n == call.before.bit_len
            rem == n % 8
            whole == n \div 8
        IN  /\ Len(built[1].data) = (n + 7) \div 8
            /\ \A q \in 1..whole : built[1].data[q] = call.before.data[q]
            /\ rem # 0 =>
                  ByteBits(built[1].data[whole + 1]) =
                      SubSeq(ByteBits(call.before.data[whole + 1]), 1, rem)
                        \o <<1>> \o Zeros(7 - rem)

\* a cell was built from data that ends inside a byte, after a stored 1 bit
C14_Witness ==
    /\ call.op = "build_ext" /\ built # NoCell
    /\ call.before.bit_len % 8 # 0
    /\ DataBit(call.before, call.before.bit_len) = 1

\* a cell was built from whole bytes of data
BuiltFromWholeBytes ==
    /\ call.op = "build_ext" /\ built # NoCell
    /\ call.before.bit_len % 8 = 0 /\ call.before.bit_len > 0

\* the union of level masks, bit by bit
UnionOfMasks(refs) ==
    LET has(i) == \E k \in DOMAIN refs : (refs[k].level_mask \div Pow2(i)) % 2 = 1
        bit(i) == IF has(i) THEN Pow2(i) ELSE 0
    IN  bit(0) + bit(1) + bit(2)

\* the level mask and the exotic flag as the descriptor byte d1 holds them
MaskInDescriptor(cell) == cell.descriptor.d1 \div 32
ExoticInDescriptor(cell) == (cell.descriptor.d1 \div 8) % 2 = 1

\* C15: without a level-mask override the mask in the built cell's descriptor
\* is the union of the masks of the stored references (empty when there are
\* none) and the cell is not flagged exotic; with an override the override
\* is used and the cell is flagged exotic; compute_level_mask() returns the
\* mask build_ext uses, and children_mask is the union in both cases.
C15_LevelMask ==
    (call.op = "build_ext" /\ built # NoCell) =>
        LET b == call.before
            union == UnionOfMasks(b.references)
        IN  /\ built[1].children_mask = union
            /\ compute_level_mask(b) = MaskInDescriptor(built[1])
            /\ b.level_mask = NoMask =>
                  MaskInDescriptor(built[1]) = union /\ ~ExoticInDescriptor(built[1])
            /\ b.level_mask # NoMask =>
                  MaskInDescriptor(built[1]) = b.level_mask[1] /\ ExoticInDescriptor(built[1])

\* a cell was built with an override that differs from the union of the
\* masks of its references
C15_Witness ==
    /\ call.op = "build_ext" /\ built # NoCell
    /\ call.before.level_mask # NoMask
    /\ call.before.references # <<>>
    /\ call.before.level_mask[1] # built[1].children_mask

\* a cell was built without an override from references of different masks
BuiltFromMixedMasks ==
    /\ call.op = "build_ext" /\ built # NoCell
    /\ call.before.level_mask = NoMask
    /\ \E i, j \in DOMAIN call.before.references :
          call.before.references[i].level_mask # call.before.references[j].level_mask

\* C16: after any sequence of append calls with any argument values bit_len
\* is at most 1023 and the reference count at most 4, every byte an append
\* writes lies inside the 128-byte data buffer (no write is undefined), and
\* no debug assertion fails: a call panics only on the overflow of the u16
\* sum in a build with overflow checks.
C16_BuilderSafe ==
    /\ builder.bit_len <= MAX_BIT_LEN
    /\ Len(builder.references) <= MAX_REF_COUNT
    /\ fault # "ub"
    /\ fault = "panic" => Overflows(call.before.bit_len, call.bits)

\* the same for the calls whose bit count does not wrap the u16 sum
BuilderSafeBelowWrap ==
    (call.op \in AppendOps /\ call.before.bit_len + call.bits >= U16Mod) \/ C16_BuilderSafe

\* store_u64 of the high 64 bits and then store_u64 of the low 64 bits
TwoU64(b, value, oc) ==
    LET first == store_u64(b, SubSeq(value, 1, 64), oc)
    IN  IF first.fault # "none" THEN first
        ELSE store_u64(first.self, SubSeq(value, 65, 128), oc)

SameAsTwoU64 ==
    LET two == TwoU64(call.before, call.value, overflow_checks)
    IN  /\ two.fault = "none"
        /\ builder.data = two.self.data
        /\ builder.bit_len = two.self.bit_len

\* C27: at every bit offset, aligned or not, store_u128(v) leaves the builder
\* with the same data bytes and bit_len as store_u64(high 64 bits of v)
\* followed by store_u64(low 64 bits of v).
C27_U128AsTwoU64 == call.op = "store_u128" /\ fault = "none" => SameAsTwoU64

\* C27 as amended: at every bit offset at which store_u128(v) returns true it
\* leaves the builder with the same data bytes and bit_len as store_u64(high
\* 64 bits of v) followed by store_u64(low 64 bits of v), both returning true.
U128AsTwoU64WhenStored ==
    call.op = "store_u128" /\ fault = "none" /\ call.ret =>
        SameAsTwoU64 /\ TwoU64(call.before, call.value, overflow_checks).ret

\* a u128 whose halves differ was stored at an offset inside a byte
C27_Witness ==
    /\ call.op = "store_u128" /\ fault = "none" /\ call.ret
    /\ call.before.bit_len % 8 # 0
    /\ SubSeq(call.value, 1, 64) # SubSeq(call.value, 65, 128)

\* store_u128 was refused where store_u64 of the high half is accepted
U128RefusedU64Stored ==
    /\ call.op = "store_u128" /\ fault = "none" /\ ~call.ret
    /\ store_u64(call.before, SubSeq(call.value, 1, 64), overflow_checks).ret

SizedOps == {"store_zeroes", "store_uint", "store_small_uint"}

\* C28: store_zeroes(bits), store_uint(value, bits) and store_small_uint(value,
\* bits) return false and change nothing whenever bit_len + bits exceeds 1023
\* as exact integers, for every 16-bit bits: the 16-bit sum never wraps around
\* so that an oversized request passes the check.
C28_CapacitySound ==
    (call.op \in SizedOps /\ call.before.bit_len + call.bits > MAX_BIT_LEN) =>
        fault = "none" /\ ~call.ret /\ builder = call.before

\* the same, of the requests whose sum fits 16 bits
CapacitySoundBelowWrap ==
    (call.op \in SizedOps /\ call.before.bit_len + call.bits > MAX_BIT_LEN
       /\ ~Overflows(call.before.bit_len, call.bits)) =>
        fault = "none" /\ ~call.ret /\ builder = call.before

\* every bit of the buffer of b at a position >= bit_len is 0
ZeroBeyond(b) ==
    LET q == b.bit_len \div 8
        r == b.bit_len % 8
    IN  /\ \A k \in (q + 2)..DataLen : b.data[k] = 0
        /\ q < DataLen => b.data[q + 1] % Pow2(8 - r) = 0

\* C30: after any sequence of append operations, every bit of the builder's
\* data buffer at a position >= bit_len is 0.
C30_ZeroBeyondBitLen == fault = "none" => ZeroBeyond(builder)

\* the same, of the builds with overflow checks
ZeroBeyondWithChecks == overflow_checks /\ fault = "none" => ZeroBeyond(builder)

\* the same, after an append whose 16-bit sum did not wrap on a builder that
\* had only zeroes beyond its bit_len
ZeroBeyondKept ==
    (fault = "none" /\ ZeroBeyond(call.before)
       /\ ~Overflows(call.before.bit_len, call.bits)) => ZeroBeyond(builder)

-----------------------------------------------------------------------------
(* Claims about the augmented dictionary *)

MutOps == {"set", "replace", "add", "remove"}
AllKeys == 0 .. Pow2(KeyBits) - 1

before == dcall.before

Stored(d) == {k \in AllKeys : get(d, k).ok /\ get(d, k).val # None}
ExtraOf(d, k) == get(d, k).val[1][1]
Combine(a, b) == bool_or_comp(StoreExtra(a), StoreExtra(b)).val = <<1>>

\* the fold of the comparator over the extras of the keys, A::default() if none
RECURSIVE FoldExtras(_, _)
FoldExtras(d, keys) ==
    IF keys = {} THEN FALSE
    ELSE LET k == CHOOSE k \in keys : \A j \in keys : k <= j
         IN  IF keys = {k} THEN ExtraOf(d, k)
             ELSE Combine(ExtraOf(d, k), FoldExtras(d, keys \ {k}))

\* C2: after every set, replace, add or remove, whether it succeeded or not,
\* root_extra is the fold of the comparator over the extras of all stored
\* entries, and A::default() when the dictionary is empty.
C2_RootExtraIsFold ==
    dcall.op \in MutOps => dict_extra = FoldExtras(self, Stored(self))

\* the same, of the dictionaries made by AugDict::new and their own operations
RootExtraIsFoldWhenBuilt == trusted => C2_RootExtraIsFold

\* C3: get(k) after set(k, v) returns v; remove(k) returns the entry that was
\* stored under k (None if there was none, as for a second remove) and get(k)
\* then returns None; the entries under all other keys stay as they were.
C3_Exactness ==
    (trusted /\ dcall.op \in {"set", "remove"}) =>
        /\ dcall.ret.ok
        /\ dcall.op = "set" => get(self, dcall.key) = Ok(Some(<<dcall.extra, dcall.value>>))
        /\ dcall.op = "remove" =>
              /\ dcall.ret = get(before, dcall.key)
              /\ get(self, dcall.key) = Ok(None)
        /\ \A k \in AllKeys \ {dcall.key} : get(self, k) = get(before, k)

\* a set overwrote the entry of a key that shares a fork with other keys
C3_Witness ==
    /\ trusted /\ dcall.op = "set" /\ dcall.ret.ok
    /\ dcall.key \in Stored(before)
    /\ get(before, dcall.key) # get(self, dcall.key)
    /\ Cardinality(Stored(self)) >= 3

Min2(S) == CHOOSE k \in S : \A j \in S : k <= j
Max2(S) == CHOOSE k \in S : \A j \in S : k >= j

\* the entry the query is to return, on the set of stored keys
Nearest(d, key, towards, inclusive) ==
    LET keys == Stored(d)
        beyond == IF towards = "Max" THEN {k \in keys : k > key} ELSE {k \in keys : k < key}
        k == IF inclusive /\ key \in keys THEN key
             ELSE IF towards = "Max" THEN Min2(beyond) ELSE Max2(beyond)
    IN  IF ~(inclusive /\ key \in keys) /\ beyond = {} THEN Ok(None)
        ELSE Ok(Some(Entry(StoreKey(k), Lookup(d.root[1], StoreKey(k)).val[1])))

\* C4: on a well-formed dictionary with unsigned keys, dict_find_owned returns
\* the entry of the key itself when inclusive and the key is stored; otherwise
\* the entry with the smallest stored key strictly greater (towards Max) or the
\* largest stored key strictly smaller (towards Min), and None if there is none.
C4_FindNearest ==
    (trusted /\ dcall.op = "find" /\ ~dcall.signed) =>
        dcall.ret = Nearest(self, dcall.key, dcall.towards, dcall.inclusive)

\* keys {1,2,3,6,7,8}: the query for the absent key 4 towards Max returned 6
C4_Witness ==
    /\ trusted /\ dcall.op = "find" /\ ~dcall.signed /\ dcall.ret.ok
    /\ Stored(self) = {1, 2, 3, 6, 7, 8}
    /\ dcall.key = 4 /\ dcall.towards = "Max"
    /\ dcall.ret.val # None /\ dcall.ret.val[1].key = StoreKey(6)

\* a key read as a signed integer: its top bit is the sign
AsSigned(k) == IF k >= Pow2(KeyBits - 1) THEN k - Pow2(KeyBits) ELSE k

\* the entry the signed query is to return, on the set of stored keys
NearestSigned(d, key, towards, inclusive) ==
    LET keys == Stored(d)
        beyond == IF towards = "Max" THEN {k \in keys : AsSigned(k) > AsSigned(key)}
                  ELSE {k \in keys : AsSigned(k) < AsSigned(key)}
        k == IF inclusive /\ key \in keys THEN key
             ELSE IF towards = "Max"
             THEN CHOOSE j \in beyond : \A i \in beyond : AsSigned(j) <= AsSigned(i)
             ELSE CHOOSE j \in beyond : \A i \in beyond : AsSigned(j) >= AsSigned(i)
    IN  IF ~(inclusive /\ key \in keys) /\ beyond = {} THEN Ok(None)
        ELSE Ok(Some(Entry(StoreKey(k), Lookup(d.root[1], StoreKey(k)).val[1])))

\* C23: with signed = true, dict_find_owned orders the keys as signed integers
\* whose top bit is the sign: for every key and direction it returns the
\* nearest stored key in that order, also across the boundary between the
\* negative and the non-negative keys, with an empty or a non-empty root label.
C23_SignedNearest ==
    (trusted /\ dcall.op = "find" /\ dcall.signed) =>
        dcall.ret = NearestSigned(self, dcall.key, dcall.towards, dcall.inclusive)

\* the signed query for a non-negative key towards Min returned a negative
\* key of a dictionary whose keys are all negative: its root label is not empty
C23_Witness ==
    /\ trusted /\ dcall.op = "find" /\ dcall.signed /\ dcall.ret.ok
    /\ dcall.towards = "Min" /\ AsSigned(dcall.key) >= 0
    /\ Cardinality(Stored(self)) >= 2
    /\ dict_root[1].label # <<>>
    /\ dcall.ret.val # None /\ AsSigned(LoadKey(dcall.ret.val[1].key)) < 0

\* the same on a dictionary with keys of both signs: its root label is empty
SignedAcrossEmptyLabel ==
    /\ trusted /\ dcall.op = "find" /\ dcall.signed /\ dcall.ret.ok
    /\ dcall.towards = "Min" /\ AsSigned(dcall.key) >= 0 /\ ~dcall.inclusive
    /\ dict_root # None /\ dict_root[1].label = <<>>
    /\ \A k \in Stored(self) : AsSigned(k) < 0 \/ AsSigned(k) >= AsSigned(dcall.key)
    /\ dcall.ret.val # None /\ AsSigned(LoadKey(dcall.ret.val[1].key)) < 0

FindOps == {"find", "find_bound", "find_bound_owned"}

\* the query of the last call, made on the dictionary `root`
Asked(root) ==
    CASE dcall.op = "find" ->
             dict_find_owned(root, KeyBits, StoreKey(dcall.key), dcall.towards,
                             dcall.inclusive, dcall.signed)
      [] dcall.op = "find_bound" -> dict_find_bound(root, KeyBits, dcall.towards, dcall.signed)
      [] OTHER -> dict_find_bound_owned(root, KeyBits, dcall.towards, dcall.signed)

\* the branches taken from `cell` down to the leaf of a stored key
RECURSIVE KeyPath(_, _)
KeyPath(cell, key) ==
    IF Len(key) <= Len(cell.label) THEN <<>>
    ELSE <<key[Len(cell.label) + 1]>>
           \o KeyPath(cell.refs[key[Len(cell.label) + 1] + 1],
                      SubSeq(key, Len(cell.label) + 2, Len(key)))

IsPrefix(a, b) == Len(a) <= Len(b) /\ SubSeq(b, 1, Len(a)) = a

FoundBesideBroken ==
    /\ dcall.op = "find" /\ broken # None /\ dcall.ret.ok /\ dcall.ret.val # None

\* the bound of a damaged dictionary was found without going through the
\* damaged node
BoundBesideBroken ==
    /\ dcall.op = "find_bound" /\ broken # None /\ dcall.ret.ok /\ dcall.ret.val # None

\* the entry of the smallest or largest stored key, in the signed order if signed
BoundOf(d, bound, signed) ==
    LET keys == Stored(d)
        Rank(k) == IF signed THEN AsSigned(k) ELSE k
        k == IF bound = "Min" THEN CHOOSE j \in keys : \A i \in keys : Rank(j) <= Rank(i)
             ELSE CHOOSE j \in keys : \A i \in keys : Rank(j) >= Rank(i)
    IN  IF keys = {} THEN Ok(None)
        ELSE Ok(Some(Entry(StoreKey(k), Lookup(d.root[1], StoreKey(k)).val[1])))

\* C25: on a well-formed dictionary dict_find_bound returns the smallest
\* stored key for Min and the largest for Max (in the signed order when signed)
\* with the value of that key, the returned key has key_bit_len bits, the
\* result is None exactly when the dictionary is empty, and
\* dict_find_bound_owned returns the same key and the same value bits.
C25_Bounds ==
    (trusted /\ dcall.op \in {"find_bound", "find_bound_owned"}) =>
        /\ dcall.ret = BoundOf(self, dcall.towards, dcall.signed)
        /\ dcall.ret.ok
        /\ dcall.ret.val = None <=> dict_root = None
        /\ dcall.ret.val # None => Len(dcall.ret.val[1].key) = KeyBits
        /\ dcall.ret = dict_find_bound(dict_root, KeyBits, dcall.towards, dcall.signed)
        /\ dcall.ret = dict_find_bound_owned(dict_root, KeyBits, dcall.towards, dcall.signed)

\* dict_find_bound_owned returned the smallest key in the signed order, a
\* negative one, of a dictionary with keys of both signs
C25_Witness ==
    /\ trusted /\ dcall.op = "find_bound_owned" /\ dcall.signed /\ dcall.towards = "Min"
    /\ Cardinality(Stored(self)) >= 3
    /\ \E k \in Stored(self) : AsSigned(k) >= 0
    /\ dcall.ret.ok /\ dcall.ret.val # None
    /\ AsSigned(LoadKey(dcall.ret.val[1].key)) < 0

\* the largest key in the signed order of a dictionary whose keys are all
\* negative: its root label is not empty
SignedBoundWithRootLabel ==
    /\ trusted /\ dcall.op = "find_bound" /\ dcall.signed /\ dcall.towards = "Max"
    /\ Cardinality(Stored(self)) >= 2
    /\ dict_root[1].label # <<>>
    /\ dcall.ret.ok /\ dcall.ret.val # None
    /\ AsSigned(LoadKey(dcall.ret.val[1].key)) < 0

\* C7: when set, replace, add or remove returns an error, the dictionary has
\* the root cell and the root_extra it had before the call.
C7_ErrorKeepsDict ==
    (dcall.op \in MutOps /\ ~dcall.ret.ok) =>
        /\ dict_root = before.root
        /\ dict_extra = before.extra

\* C8: set always stores the entry; replace stores it only if the key was
\* present and add only if it was absent; the call that does not apply returns
\* Ok(false) and leaves the root cell and root_extra as they were.
C8_SetModes ==
    (trusted /\ dcall.op \in {"set", "replace", "add"}) =>
        LET present == dcall.key \in Stored(before)
            applies == \/ dcall.op = "set"
                       \/ dcall.op = "replace" /\ present
                       \/ dcall.op = "add" /\ ~present
        IN  /\ dcall.ret = Ok(applies)
            /\ applies => get(self, dcall.key) = Ok(Some(<<dcall.extra, dcall.value>>))
            /\ ~applies => self = before

\* an add of another entry under a stored key returned Ok(false)
C8_Witness ==
    /\ trusted /\ dcall.op = "add" /\ dcall.ret = Ok(FALSE)
    /\ dcall.key \in Stored(before)
    /\ get(before, dcall.key) # Ok(Some(<<dcall.extra, dcall.value>>))

\* C9: the iterator yields every stored entry exactly once, in strictly
\* ascending order of the keys.
C9_IterAscending ==
    trusted =>
        LET items == iter(self)
        IN  /\ \A i \in 1 .. Len(items) :
                  /\ items[i].ok
                  /\ get(self, items[i].val[1]) = Ok(Some(<<items[i].val[2], items[i].val[3]>>))
            /\ \A i, j \in 1 .. Len(items) : i < j => items[i].val[1] < items[j].val[1]
            /\ {items[i].val[1] : i \in 1 .. Len(items)} = Stored(self)

\* the iterator ran over four entries after a removal
C9_Witness ==
    /\ trusted /\ dcall.op = "remove" /\ dcall.ret.ok /\ dcall.ret.val # None
    /\ Len(iter(self)) = 4

\* the leaf or fork over the keys, which agree on their first `from` bits
RECURSIVE CanonicalNode(_, _, _)
CanonicalNode(d, keys, from) ==
    LET first == StoreKey(Min2(keys))
        last == StoreKey(Max2(keys))
        l == Lcp(SubSeq(first, from + 1, KeyBits), SubSeq(last, from + 1, KeyBits))
        label == SubSeq(first, from + 1, from + l)
        zeros == {k \in keys : StoreKey(k)[from + l + 1] = 0}
    IN  IF keys = {Min2(keys)}
        THEN Leaf(SubSeq(first, from + 1, KeyBits), Lookup(d.root[1], first).val[1])
        ELSE Fork(label, CanonicalNode(d, zeros, from + l + 1),
                  CanonicalNode(d, keys \ zeros, from + l + 1)).val

\* the only tree over the entries of d
Canonical(d) ==
    IF Stored(d) = {} THEN AugDictNew
    ELSE [root |-> Some(CanonicalNode(d, Stored(d), 0)),
          extra |-> FoldExtras(d, Stored(d))]

\* C10: the root cell and root_extra depend only on the set of entries, not on
\* the order in which they were set or on entries set and removed on the way.
C10_Canonical == trusted => self = Canonical(self)

\* a removal left three entries under a root that is a fork
C10_Witness ==
    /\ trusted /\ dcall.op = "remove" /\ dcall.ret.ok /\ dcall.ret.val # None
    /\ Cardinality(Stored(self)) = 3
    /\ Cardinality(Stored(before)) = 4

\* C11: a clone of an AugDict taken before any sequence of set, replace, add
\* or remove calls on the original still shows the same entries, the same
\* root cell and the same root_extra() afterwards, and no cell that existed
\* when the clone was taken has been modified.
C11_ClonePersistent ==
    cloned # None =>
        /\ Observed(cells, cloned[1].copy) = cloned[1].seen
        /\ \A a \in DOMAIN cloned[1].cells : cells[a] = cloned[1].cells[a]

\* the original has changed under a clone that was taken of a filled dictionary
C11_Witness ==
    /\ cloned # None
    /\ cloned[1].seen.entries # <<>>
    /\ ccall.op \in MutOps /\ ccall.ret.ok
    /\ Observed(cells, orig) # cloned[1].seen
    /\ Reach(cells, orig.root) \cap Reach(cells, cloned[1].copy.root) # {}

-----------------------------------------------------------------------------
(* Claims about the shard state codec *)

\* C6: loading what store_into stored gives the ShardStateUnsplit back, in
\* every feature configuration.
C6_RoundTrip == loaded # None => loaded[1] = Ok(shard_state[1])

\* the same, of the builds without the venom feature
RoundTripWithoutVenom == "venom" \notin features => C6_RoundTrip

-----------------------------------------------------------------------------
(* Claims about the usage tree *)

LoadOps == {"reference", "reference_cloned"}
HashOf(w) == repr_hash(usage_cells[w].cell)
ChildLoaded == ucall.op \in LoadOps /\ ucall.ret # None

\* C17: in OnLoad mode, after track(cell) contains(hash of the cell) is
\* true; after reference(i) or reference_cloned(i) on a usage cell has
\* returned a child while the usage tree is alive, contains(hash of the
\* child) is true; data() adds nothing to the visited set.
C17_OnLoadRecords ==
    usage_tree.mode = "OnLoad" =>
        /\ ucall.op = "track" => contains(usage_tree, HashOf(ucall.ret[1]))
        /\ ChildLoaded /\ usage_tree.alive => contains(usage_tree, HashOf(ucall.ret[1]))
        /\ ucall.op = "data" => usage_tree.visited = ucall.before

\* the same, of the Rc usage cells
OnLoadRecordsRc == ~usage_sync => C17_OnLoadRecords

\* the same, of the Arc usage cells when no other load_reference is under way
OnLoadRecordsQuiet == (\A t \in Threads : running[t] = None) => C17_OnLoadRecords

C19_ReferenceRecords ==
    usage_tree.mode = "OnDataAccess" /\ usage_tree.alive /\ ucall.op \in LoadOps
        => contains(usage_tree, HashOf(ucall.on))

\* the same of data(), which does record
DataRecords ==
    usage_tree.mode = "OnDataAccess" /\ usage_tree.alive /\ ucall.op = "data"
        => contains(usage_tree, HashOf(ucall.on))

\* a resolved child slot keeps its usage cell
SlotsKept ==
    \A w \in DOMAIN usage_cells, i \in 1..4 :
        usage_cells[w].children[i] # None =>
            usage_cells'[w].children[i] = usage_cells[w].children[i]

\* what reference(i) returns is what the slot holds; nothing from 4 on
ReturnsSlot ==
    ucall.op \in LoadOps =>
        ucall.ret = IF ucall.index >= 4 THEN None
                    ELSE usage_cells[ucall.on].children[ucall.index + 1]

\* the wrapped cell was asked for each reference at most once
AskedOnce == \A w \in DOMAIN usage_cells, i \in 1..4 : usage_cells[w].asked[i] <= 1

\* C20: each of the four child slots of a usage cell is resolved once and
\* kept, whether it resolves to a child or to no child: the wrapped cell is
\* asked for reference i at most once per slot, a later reference(i) returns
\* the same usage cell (or None again), a resolved slot never changes, and an
\* index of 4 or more gives None.
C20_ResolvedOnce == [](AskedOnce /\ ReturnsSlot) /\ [][SlotsKept]_vars

\* the same, where the wrapped cell may be asked again for a reference it
\* does not have
AskedOnceForChild ==
    \A w \in DOMAIN usage_cells, i \in 1..4 :
        usage_cells[w].asked[i] > 1 =>
            ~usage_sync /\ reference_cloned(usage_cells[w].cell, i - 1) = None
ResolvedOnceForChild == [](AskedOnceForChild /\ ReturnsSlot) /\ [][SlotsKept]_vars

\* a caller that is past call_once_force finds the Once of its slot complete
NoReadWhileWritten ==
    \A t \in Threads :
        running[t] # None /\ running[t][1].at = "after" =>
            usage_cells[running[t][1].on].reference_states[running[t][1].index + 1]
                = "COMPLETE"

\* at most one caller is in the closure of a slot
OneInClosure ==
    \A t, u \in Threads :
        /\ running[t] # None /\ running[u] # None
        /\ running[t][1].at = "closure" /\ running[u][1].at = "closure"
        /\ running[t][1].on = running[u][1].on
        /\ running[t][1].index = running[u][1].index
        => t = u

\* C21: with the Arc usage cells, when several threads call reference(i) on
\* the same usage cell for the first time at once, the wrapper of slot i is
\* made exactly once, the other callers wait for it, all callers get the same
\* wrapper, and no caller reads the slot while it is being written.
C21_OnceExactly ==
    /\ [](usage_sync => AskedOnce /\ OneInClosure /\ NoReadWhileWritten /\ ReturnsSlot)
    /\ [][usage_sync => SlotsKept]_vars

\* a thread got the child of a slot from reference(i) while the thread that
\* made it is still in its own reference(i) of that slot
C21_Witness ==
    /\ usage_sync /\ ChildLoaded
    /\ \E t \in Threads \ {ucall.thread} :
           /\ running[t] # None
           /\ running[t][1].updated
           /\ running[t][1].on = ucall.on /\ running[t][1].index = ucall.index
    /\ usage_cells[ucall.on].asked[ucall.index + 1] = 1

\* a thread waits for the closure that another thread runs on the same slot
WaitsForClosure ==
    \E t, u \in Threads :
        /\ running[t] # None /\ running[u] # None
        /\ running[t][1].at = "closure" /\ running[u][1].at = "waiting"
        /\ running[t][1].on = running[u][1].on
        /\ running[t][1].index = running[u][1].index

\* the cell behind what a call returned, if it returned a usage cell
Behind(side, ret) == IF ret = None THEN None ELSE Some(side.cells[ret[1]].cell)

\* C22: under any sequence of track, data, reference, reference_cloned and
\* contains calls made by one thread, in either mode, the Rc and the Arc
\* usage cells return the same results and have recorded the same set of
\* visited hashes after every step.
C22_SameObservable ==
    /\ twin_call.rc = twin_call.sync
    /\ Behind(rc_usage, twin_call.rc) = Behind(sync_usage, twin_call.sync)
    /\ \A cell \in DOMAIN UnderRefs :
           contains(rc_usage.tree, repr_hash(cell)) = contains(sync_usage.tree, repr_hash(cell))

\* a child was returned by both after its hash was recorded, and some wrapped
\* cell is not recorded
C22_Witness ==
    /\ twin_call.op \in LoadOps /\ twin_call.rc # None
    /\ contains(sync_usage.tree, Behind(sync_usage, twin_call.sync)[1])
    /\ \E w \in DOMAIN rc_usage.cells : ~contains(rc_usage.tree, repr_hash(rc_usage.cells[w].cell))

\* C29: with the Arc usage cells in OnLoad mode, whenever reference(i) has
\* returned a child to any thread while the usage tree is alive, the hash of
\* the child is in the visited set.
C29_SyncChildRecorded ==
    usage_sync /\ usage_tree.mode = "OnLoad" /\ usage_tree.alive /\ ChildLoaded
        => contains(usage_tree, HashOf(ucall.ret[1]))

\* the same, of the thread whose call ran the closure of the slot
ChildRecordedForCloser ==
    usage_sync /\ usage_tree.mode = "OnLoad" /\ usage_tree.alive /\ ChildLoaded
      /\ (\A t \in Threads : running[t] # None => ~running[t][1].updated)
        => contains(usage_tree, HashOf(ucall.ret[1]))

-----------------------------------------------------------------------------
(* Claims about the message layout *)

\* what the message takes in its root cell under a layout
FullLen(layout) ==
    compute_full_len(layout, message.info_size, message.init, message.body_size)
\* the root cell can hold it
Fits(layout) == FullLen(layout)[1] <= MAX_BIT_LEN /\ FullLen(layout)[2] <= MAX_REF_COUNT
\* plain if it fits, otherwise the body in a child, otherwise the init, otherwise both
Preferred ==
    IF Fits(plain) THEN plain
    ELSE IF Fits(MessageLayout(FALSE, TRUE)) THEN MessageLayout(FALSE, TRUE)
    ELSE IF Fits(MessageLayout(TRUE, FALSE)) THEN MessageLayout(TRUE, FALSE)
    ELSE MessageLayout(TRUE, TRUE)

\* C26: MessageLayout::compute returns, with the layout, the bits and the
\* references the message takes in the root cell, which are those of
\* compute_full_len for that layout; and the layout is plain when everything
\* fits in one cell, otherwise body in child, otherwise init in child,
\* otherwise both in children.
C26_ComputeMatchesFullLen ==
    mcall.op = "compute" =>
        /\ Size(mcall.ret.bits, mcall.ret.refs) = FullLen(mcall.ret.layout)
        /\ mcall.ret.layout = Preferred

\* what compute does give: the preferred layout and its bits, and its
\* references less the one of the child when exactly one part is in a child
OneInChild(layout) == layout.init_to_cell # layout.body_to_cell
ComputeLessTheChild ==
    mcall.op = "compute" =>
        /\ mcall.ret.layout = Preferred
        /\ mcall.ret.bits = FullLen(mcall.ret.layout)[1]
        /\ mcall.ret.refs =
               FullLen(mcall.ret.layout)[2] - (IF OneInChild(mcall.ret.layout) THEN 1 ELSE 0)

\* a message with a layout of its own that passes the capacity check of
\* store_into is stored
CheckedIsStored ==
    (mcall.op = "store_into" /\ message.layout # None /\ mcall.ret.checked) => mcall.ret.ret.ok

\* the same for a message whose layout store_into computes
CheckedIsStoredComputed ==
    (mcall.op = "store_into" /\ message.layout = None /\ mcall.ret.checked) => mcall.ret.ret.ok

\* compute has put exactly one part in a child
ComputedOneInChild == mcall.op = "compute" /\ OneInChild(mcall.ret.layout)
\* compute has put both parts in children
ComputedBothInChildren ==
    mcall.op = "compute" /\ mcall.ret.layout = MessageLayout(TRUE, TRUE)

====
